---- MODULE Spec2Model ----
(***************************************************************************)
(* Trading decision pipeline of microcap-scout-bot: price routing with     *)
(* ordered failover, signal routing, allocation, exit evaluation, the      *)
(* portfolio ledger and order execution.                                   *)
(*                                                                         *)
(* Each component has its own specification (SpecRouter, SpecAlloc, ...).  *)
(* A component that is not under analysis rests in its "off" position.     *)
(* Money amounts are exact integers: see Scale.                            *)
(***************************************************************************)
EXTENDS Integers, Sequences, FiniteSets, TLC

VARIABLES
    \* ---- price routing (data/price_router.py, market_data.py)
    providers,      \* PriceRouter.providers: the ordered adapter list
    rt_pc,          \* position of the lookup in progress
    rt_kind,        \* which lookup runs
    rt_idx,         \* loop index into the adapter list (1-based)
    rt_env,         \* what each adapter answers during this lookup
    rt_massive,     \* what the Massive reference lookup answers
    rt_calls,       \* adapters called so far in this lookup, in order
    rt_last_error,  \* last_error
    rt_result,      \* value returned by the fallback loop
    rt_returned,    \* value returned to the caller of the lookup
    rt_cause,       \* __cause__ of the RuntimeError raised, when one is
    \* ---- allocation (trader/allocation.py)
    al_pc,          \* position of allocate_positions
    al_budget,      \* DAILY_BUDGET, in dollars
    al_crash,       \* crash_mode
    al_n,           \* len(final_signals)
    al_i,           \* index of the signal the loop is at (1-based)
    al_remaining,   \* budget_remaining
    al_base,        \* base_allocation
    al_alloc,       \* allocations: symbol -> shares (0: no entry)
    al_price,       \* price each entry of allocations was sized at
    al_accepted,    \* number of signals accepted so far
    al_spent,       \* sum of the notionals of the accepted signals
    \* ---- exit evaluation (trader/risk_model.py)
    ex_pc,          \* position of the should_exit call
    ex_position,    \* the position argument
    ex_crash,       \* crash_mode
    ex_bars,        \* what the bar lookup and exit filter answer
    ex_result,      \* "True", "False", or "raise" when should_exit raises
    ex_fetched,     \* whether should_exit asked the router for bars
    \* ---- portfolio ledger (trader/portfolio_state.py, services/trading.py)
    pf_impl,        \* which of the two ledger implementations is in use
    pf_today,       \* today's date, as a day number
    pf_file,        \* the persisted state file: its text
    pf_mem,         \* the state the caller holds
    pf_origin,      \* what the file held when pf_mem was loaded from it
                    \* (nothing once pf_mem is no longer as loaded)
    pf_origin_day,  \* the day of that load
    pf_last,        \* the last ledger operation and how it ended
    \* ---- brokerage and order executor (trader/order_executor.py)
    br_positions,   \* symbols held as open positions at the brokerage
    br_pending,     \* symbols with an accepted entry order not yet filled
    xt_pc,          \* where execute_trades stands
    xt_client,      \* whether trading_client was built
    xt_calls,       \* calls of execute_trades made so far
    xt_crash,       \* execute_trades: crash_mode
    xt_shares,      \* execute_trades: allocations (symbol -> shares)
    xt_queue,       \* execute_trades: symbols the loop has still to visit
    xt_open,        \* execute_trades: open_positions, as fetched
    xt_buying_power,\* execute_trades: buying_power
    xt_submitted,   \* submit_order calls made, per symbol
    xt_held_submit, \* symbols for which submit_order was called while held
    xt_last_order,  \* the last order handed to submit_order, and the answer
    xt_bracket,     \* the bracket of that order, and the signal facts at the time
    xt_fetch,       \* execute_trades: how the open-positions lookup ended
    \* ---- signal router (strategy/signal_router.py)
    rs_pc,          \* where route_signals stands
    rs_crash,       \* route_signals: crash_mode
    rs_prefetched,  \* symbols the momentum and ML passes fetched bars for
    rs_preds,       \* route_signals: ml_preds the loop has still to visit
    rs_signals,     \* route_signals: signals
    rs_sentiment,   \* symbols the loop looked the sentiment up for
    rs_fetched,     \* symbols the loop fetched bars for
    rs_tested,      \* symbols the loop put to the strategy tests
    \* ---- macro-gated run (macro.py, allocation.py, trading.py)
    lg_pc,          \* where trading.execute_trades stands
    lg_macro,       \* macro_state
    lg_market,      \* what the macro checks were given
    lg_built,       \* universe, as build_universe returned it
    lg_universe,    \* symbols of the universe the loop has still to visit
    lg_executed,    \* executed
    lg_skipped,     \* skipped
    lg_orders,      \* orders handed to client.submit_order in this run
    lg_summary,     \* the summary returned
    \* ---- maybe_trade (services/trading.py), one call per thread
    STATE_LOCK,     \* the thread that holds STATE_LOCK, or "free"
    ALLOCATED_CAPITAL,
    TRADE_LOG,
    mt_client,      \* whether Alpaca credentials are configured
    mt_calls,       \* calls of maybe_trade made so far
    mt_pc,          \* per thread: where its call of maybe_trade stands
    mt_call,        \* per thread: the locals of its call
    mt_result,      \* per thread: what its last call returned
    mt_orders,      \* orders handed to alpaca.submit_order
    mt_answer,      \* per thread, what its last submit_order answered
    mt_returned,    \* calls of maybe_trade that have returned a value
    \* ---- scheduler (core/scheduler.py), one _run coroutine per job
    sc_state,       \* where Scheduler.start stands
    sc_jobs,        \* self._jobs: the names of the registered jobs
    sc_pc,          \* per job: where its _run loop stands
    sc_running,     \* per job: invocations of job.factory() in progress
    sc_work,        \* per job: steps the invocation has still to make
    sc_wait,        \* per job: wait_for, in seconds
    sc_last,        \* per job: how the last invocation was disposed of
    \* ---- trading cycle (main.py microcap_cycle)
    cy_pc,          \* where the loop of microcap_cycle stands
    cy_running,     \* iterations of the loop in progress
    cy_crash,       \* crash
    cy_index,       \* the index bars the providers hold when crash is computed
    cy_held,        \* positions open at the brokerage
    cy_open_count,  \* open_count
    cy_left,        \* entries of allocations the loop has still to visit
    cy_filtered,    \* len(filtered_allocations)
    cy_passed,      \* entries handed to execute_trades in this iteration
    cy_last,        \* how the last iteration ended
    cy_orders,      \* notionals of the orders submitted in this iteration
    \* ---- exit check and close_position (main.py, trader/order_executor.py)
    cp_pc,          \* where the exit check or close_position stands
    cp_client,      \* whether trading_client was built
    cp_calls,       \* exit checks and close_position calls made so far
    cp_book,        \* the position in AAA at the brokerage, if any
    cp_checked,     \* what the last exit check saw and decided
    cp_requests,    \* close requests handed to trading_client.close_position
    cp_symbol,      \* close_position: symbol
    cp_seen,        \* close_position: pos, as fetched
    cp_outcome,     \* close_position: how the call ended
    \* ---- Finnhub helpers (services/finnhub_client.py)
    fh_now,         \* time.time(), in whole seconds
    fh_ticks,       \* how often the clock has moved
    fh_api_key,     \* settings.finnhub_api_key is set
    _BACKOFF_UNTIL, \* per kind, the second the cooldown ends
    fh_pc,          \* per coroutine, position of its call
    fh_call,        \* per coroutine, the kind and number of its call
    fh_sent,        \* per coroutine, whether its call issued an HTTP request
    fh_result,      \* per coroutine, what its call returned
    fh_calls,       \* calls made so far
    fh_limited      \* per kind, the second the last rate-limit status arrived

routerVars == <<providers, rt_pc, rt_kind, rt_idx, rt_env, rt_massive, rt_calls,
                rt_last_error, rt_result, rt_returned, rt_cause>>

allocVars == <<al_pc, al_budget, al_crash, al_n, al_i, al_remaining, al_base,
               al_alloc, al_price, al_accepted, al_spent>>

exitVars == <<ex_pc, ex_position, ex_crash, ex_bars, ex_result, ex_fetched>>

ledgerVars == <<pf_impl, pf_today, pf_file, pf_mem, pf_origin, pf_origin_day,
                pf_last>>

execVars == <<br_positions, br_pending, xt_pc, xt_client, xt_calls, xt_crash,
              xt_shares, xt_queue, xt_open, xt_buying_power, xt_submitted,
              xt_held_submit, xt_last_order, xt_bracket, xt_fetch>>

signalVars == <<rs_pc, rs_crash, rs_prefetched, rs_preds, rs_signals,
                rs_sentiment, rs_fetched, rs_tested>>

legacyVars == <<lg_pc, lg_macro, lg_market, lg_built, lg_universe, lg_executed, lg_skipped, lg_orders,
                lg_summary>>

tradeVars == <<STATE_LOCK, ALLOCATED_CAPITAL, TRADE_LOG, mt_client, mt_calls,
               mt_pc, mt_call, mt_result, mt_orders, mt_answer,
               mt_returned>>

schedVars == <<sc_state, sc_jobs, sc_pc, sc_running, sc_work, sc_wait, sc_last>>

cycleVars == <<cy_pc, cy_running, cy_crash, cy_index, cy_held, cy_open_count, cy_left,
               cy_filtered, cy_passed, cy_last, cy_orders>>

closeVars == <<cp_pc, cp_client, cp_calls, cp_book, cp_checked, cp_requests,
               cp_symbol, cp_seen, cp_outcome>>

finnhubVars == <<fh_now, fh_ticks, fh_api_key, _BACKOFF_UNTIL, fh_pc, fh_call,
                 fh_sent, fh_result, fh_calls, fh_limited>>

otherThanClose == <<routerVars, allocVars, exitVars, ledgerVars, execVars,
        signalVars, legacyVars, tradeVars, schedVars, cycleVars, finnhubVars>>

otherThanFinnhub == <<routerVars, allocVars, exitVars, ledgerVars, execVars,
        signalVars, legacyVars, tradeVars, schedVars, cycleVars, closeVars>>

vars == <<routerVars, allocVars, exitVars, ledgerVars, execVars, signalVars,
          legacyVars, tradeVars, schedVars, cycleVars, closeVars, finnhubVars>>

otherThanSched == <<routerVars, allocVars, exitVars, ledgerVars, execVars,
        signalVars, legacyVars, tradeVars, cycleVars, closeVars, finnhubVars>>

otherThanCycle == <<routerVars, allocVars, exitVars, ledgerVars, execVars,
        signalVars, legacyVars, tradeVars, schedVars, closeVars, finnhubVars>>

otherThanRouter == <<allocVars, exitVars, ledgerVars, execVars, signalVars,
        legacyVars, tradeVars, schedVars, cycleVars, closeVars, finnhubVars>>

otherThanAlloc == <<routerVars, exitVars, ledgerVars, execVars, signalVars,
        legacyVars, tradeVars, schedVars, cycleVars, closeVars, finnhubVars>>

otherThanExit == <<routerVars, allocVars, ledgerVars, execVars, signalVars,
        legacyVars, tradeVars, schedVars, cycleVars, closeVars, finnhubVars>>

otherThanLedger == <<routerVars, allocVars, exitVars, execVars, signalVars,
        legacyVars, tradeVars, schedVars, cycleVars, closeVars, finnhubVars>>

otherThanExec == <<routerVars, allocVars, exitVars, ledgerVars, signalVars,
        legacyVars, tradeVars, schedVars, cycleVars, closeVars, finnhubVars>>

otherThanLegacy ==
    <<routerVars, allocVars, exitVars, ledgerVars, execVars, signalVars, tradeVars,
      schedVars, cycleVars, closeVars, finnhubVars>>

\* maybe_trade reads and writes the ledger file.
otherThanTrade ==
    <<routerVars, allocVars, exitVars, execVars, signalVars, legacyVars,
      schedVars, cycleVars, closeVars, finnhubVars,
      pf_impl, pf_today, pf_mem, pf_origin, pf_origin_day, pf_last>>

otherThanSignals == <<routerVars, allocVars, exitVars, ledgerVars, execVars,
        legacyVars, tradeVars, schedVars, cycleVars, closeVars, finnhubVars>>

-----------------------------------------------------------------------------
(* Generic helpers *)

Min(a, b) == IF a <= b THEN a ELSE b

Prefix(s, n) == SubSeq(s, 1, n)

Max(a, b) == IF a >= b THEN a ELSE b

-----------------------------------------------------------------------------
(* Price routing *)

\* Largest payload an adapter answers with (a price, or a number of bars).
MaxPayload == 2

Adapters == {"AV", "TD", "ALP"}

NoValue == -1

NoError == "None"

\* An adapter call raises, returns None, or returns a payload. For a price the
\* payload is the price (0 is a price); for bars it is the length of the list
\* (0 is the empty list).
Raise == [kind |-> "raise", val |-> 0]

ReturnNone == [kind |-> "none", val |-> 0]

Ok(v) == [kind |-> "ok", val |-> v]

Outcomes == {Raise, ReturnNone} \cup {Ok(v) : v \in 0..MaxPayload}

\* data/price_router.py _build_providers: AlphaVantage, TwelveData, Alpaca, each
\* only when its credentials are configured.
_build_providers(creds) ==
    LET av  == IF "AV" \in creds THEN <<"AV">> ELSE <<>>
        td  == IF "TD" \in creds THEN <<"TD">> ELSE <<>>
        alp == IF "ALP" \in creds THEN <<"ALP">> ELSE <<>>
    IN  av \o td \o alp

\* market_data.py get_price / get_aggregates: the fixed provider tuple.
LegacyProviders == <<"ALP", "TD", "AV">>

\* What the adapters of data/*.py can answer: anything.
RouterEnvs == [Adapters -> Outcomes]

\* What the adapters of market_data.py can answer to a price lookup: a float or
\* ProviderError.
LegacyPriceEnvs == [Adapters -> {Raise} \cup {Ok(v) : v \in 0..MaxPayload}]

\* ... and to a bar lookup: AlpacaProvider raises on an empty answer, the
\* TwelveData and AlphaVantage providers return the (possibly empty) list.
LegacyBarEnvs ==
    {e \in [Adapters -> {Raise} \cup {Ok(v) : v \in 0..MaxPayload}] :
        e["ALP"] # Ok(0)}

MassiveOutcomes == {Raise} \cup {Ok(v) : v \in 0..MaxPayload}

RouterList == IF rt_kind \in {"md_price", "md_bars"} THEN LegacyProviders ELSE providers

RouterIdle ==
    /\ rt_pc = "idle"
    /\ rt_kind = "none"
    /\ rt_idx = 0
    /\ rt_env = [a \in Adapters |-> Raise]
    /\ rt_massive = Raise
    /\ rt_calls = <<>>
    /\ rt_last_error = NoError
    /\ rt_result = NoValue
    /\ rt_returned = NoValue
    /\ rt_cause = NoError

RouterOff ==
    /\ providers = <<>>
    /\ rt_pc = "off"
    /\ rt_kind = "none"
    /\ rt_idx = 0
    /\ rt_env = [a \in Adapters |-> Raise]
    /\ rt_massive = Raise
    /\ rt_calls = <<>>
    /\ rt_last_error = NoError
    /\ rt_result = NoValue
    /\ rt_returned = NoValue
    /\ rt_cause = NoError

RouterInit ==
    /\ \E creds \in SUBSET Adapters : providers = _build_providers(creds)
    /\ RouterIdle

BeginLookup(kind, env, massive) ==
    /\ rt_pc = "idle"
    /\ rt_pc' = "loop"
    /\ rt_kind' = kind
    /\ rt_idx' = 1
    /\ rt_env' = env
    /\ rt_massive' = massive
    /\ rt_calls' = <<>>
    /\ rt_last_error' = NoError
    /\ rt_result' = NoValue
    /\ rt_returned' = NoValue
    /\ rt_cause' = NoError
    /\ UNCHANGED <<otherThanRouter, providers>>

\* PriceRouter.get_price is called.
GetPriceStart == \E env \in RouterEnvs : BeginLookup("pr_price", env, Raise)

\* PriceRouter.get_aggregates is called.
GetAggregatesStart == \E env \in RouterEnvs : BeginLookup("pr_bars", env, Raise)

\* market_data.get_price is called.
LegacyGetPriceStart ==
    \E env \in LegacyPriceEnvs, m \in MassiveOutcomes : BeginLookup("md_price", env, m)

\* market_data.get_aggregates is called.
LegacyGetAggregatesStart == \E env \in LegacyBarEnvs : BeginLookup("md_bars", env, Raise)

\* The loop goes on to the next adapter, remembering the exception if there is one.
TryNext(a, err) ==
    /\ rt_idx' = rt_idx + 1
    /\ rt_calls' = Append(rt_calls, a)
    /\ rt_last_error' = err
    /\ UNCHANGED <<otherThanRouter, providers, rt_pc, rt_kind, rt_env, rt_massive, rt_result,
                   rt_returned, rt_cause>>

\* The loop returns v to the caller.
ReturnNow(a, v) ==
    /\ rt_pc' = "done"
    /\ rt_calls' = Append(rt_calls, a)
    /\ rt_result' = v
    /\ rt_returned' = v
    /\ UNCHANGED <<otherThanRouter, providers, rt_kind, rt_idx, rt_env, rt_massive, rt_last_error,
                   rt_cause>>

\* `price is None` decides whether PriceRouter.get_price goes on.
PriceIsMissing(out) == out.kind = "none"

\* One iteration of the loop of PriceRouter.get_price.
GetPriceTry ==
    /\ rt_pc = "loop" /\ rt_kind = "pr_price"
    /\ rt_idx <= Len(providers)
    /\ LET a   == providers[rt_idx]
           out == rt_env[a]
       IN  IF out.kind = "raise" THEN TryNext(a, a)
           ELSE IF PriceIsMissing(out) THEN TryNext(a, rt_last_error)
           ELSE ReturnNow(a, out.val)

\* `not bars` decides whether PriceRouter.get_aggregates goes on.
BarsAreEmpty(out) == out.kind = "none" \/ out.val = 0

\* One iteration of the loop of PriceRouter.get_aggregates.
GetAggregatesTry ==
    /\ rt_pc = "loop" /\ rt_kind = "pr_bars"
    /\ rt_idx <= Len(providers)
    /\ LET a   == providers[rt_idx]
           out == rt_env[a]
       IN  IF out.kind = "raise" THEN TryNext(a, a)
           ELSE IF BarsAreEmpty(out) THEN TryNext(a, rt_last_error)
           ELSE ReturnNow(a, out.val)

\* The loop of PriceRouter.get_price / get_aggregates ran out of adapters:
\* raise RuntimeError(...) from last_error.
RouterRaise ==
    /\ rt_pc = "loop" /\ rt_kind \in {"pr_price", "pr_bars"}
    /\ rt_idx > Len(providers)
    /\ rt_pc' = "failed"
    /\ rt_cause' = rt_last_error
    /\ UNCHANGED <<otherThanRouter, providers, rt_kind, rt_idx, rt_env, rt_massive, rt_calls,
                   rt_last_error, rt_result, rt_returned>>

\* One iteration of market_data._run_fallback: `return fetcher()` unless the
\* fetcher raises ProviderError.
_run_fallbackTry ==
    /\ rt_pc = "loop" /\ rt_kind \in {"md_price", "md_bars"}
    /\ rt_idx <= Len(LegacyProviders)
    /\ LET a   == LegacyProviders[rt_idx]
           out == rt_env[a]
       IN  IF out.kind = "raise" THEN TryNext(a, a)
           ELSE /\ rt_pc' = IF rt_kind = "md_price" THEN "enrich" ELSE "done"
                /\ rt_calls' = Append(rt_calls, a)
                /\ rt_result' = out.val
                /\ rt_returned' = IF rt_kind = "md_price" THEN NoValue ELSE out.val
                /\ UNCHANGED <<otherThanRouter, providers, rt_kind, rt_idx, rt_env, rt_massive,
                               rt_last_error, rt_cause>>

\* market_data._run_fallback ran out of providers.
_run_fallbackRaise ==
    /\ rt_pc = "loop" /\ rt_kind \in {"md_price", "md_bars"}
    /\ rt_idx > Len(LegacyProviders)
    /\ rt_pc' = "failed"
    /\ rt_cause' = rt_last_error
    /\ UNCHANGED <<otherThanRouter, providers, rt_kind, rt_idx, rt_env, rt_massive, rt_calls,
                   rt_last_error, rt_result, rt_returned>>

\* round((price + ref_price) / 2, 4), prices counted in units of 0.0001:
\* a tie goes to the even neighbour.
Blend(price, ref_price) ==
    LET s == price + ref_price
        h == s \div 2
    IN  IF s % 2 = 0 THEN h
        ELSE IF h % 2 = 0 THEN h ELSE h + 1

\* market_data.get_price after _run_fallback returned: the Massive reference
\* price is looked up and, when there is one, blended in.
LegacyGetPriceEnrich ==
    /\ rt_pc = "enrich"
    /\ rt_pc' = "done"
    /\ rt_returned' = IF rt_massive.kind = "raise" THEN rt_result
                      ELSE Blend(rt_result, rt_massive.val)
    /\ UNCHANGED <<otherThanRouter, providers, rt_kind, rt_idx, rt_env, rt_massive, rt_calls,
                   rt_last_error, rt_result, rt_cause>>

\* The caller has the answer (or caught the error and skipped the symbol); the
\* router is ready for the next lookup.
RouterReturn ==
    /\ rt_pc \in {"done", "failed"}
    /\ rt_pc' = "idle"
    /\ rt_kind' = "none"
    /\ rt_idx' = 0
    /\ rt_env' = [a \in Adapters |-> Raise]
    /\ rt_massive' = Raise
    /\ rt_calls' = <<>>
    /\ rt_last_error' = NoError
    /\ rt_result' = NoValue
    /\ rt_returned' = NoValue
    /\ rt_cause' = NoError
    /\ UNCHANGED <<otherThanRouter, providers>>

NextRouter ==
    \/ GetPriceStart
    \/ GetAggregatesStart
    \/ LegacyGetPriceStart
    \/ LegacyGetAggregatesStart
    \/ GetPriceTry
    \/ GetAggregatesTry
    \/ RouterRaise
    \/ _run_fallbackTry
    \/ _run_fallbackRaise
    \/ LegacyGetPriceEnrich
    \/ RouterReturn

-----------------------------------------------------------------------------
(* Allocation: trader/allocation.py *)

\* Longest signal list handed to allocate_positions.
MaxSignals == 4

Symbols == {"AAA", "BBB", "CCC", "DDD"}

\* Amounts are counted in 1/Scale dollars, so that every product of the
\* factors 1/3, 0.8, 0.6, 0.75, 0.5, 1.2 and 1.3 applied to a whole number of
\* dollars is a whole number.
Scale == 3 * 4 * 5 * 5

Dollars(d) == d * Scale

\* x * num / den, exact for the amounts above.
Times(x, num, den) == (x * num) \div den

\* DAILY_BUDGET_USD values the process may be started with.
Budgets == {0, 100, 1000}

\* Prices PriceRouter.get_price may return, in dollars.
Prices == {0, 40, 350}

\* vol_ratio values of a signal, in hundredths.
VolRatios == {50, 75, 100, 160, 200}

SignalTypes == {"momentum", "reversal"}

\* budget_remaining at the start: DAILY_BUDGET * 0.80 in crash mode.
StartBudget(budget, crash_mode) ==
    IF crash_mode THEN Times(Dollars(budget), 4, 5) ELSE Dollars(budget)

\* base_allocation: budget_remaining / 3 in crash mode, DAILY_BUDGET / 3 otherwise.
BaseAllocation(budget, crash_mode) == Times(StartBudget(budget, crash_mode), 1, 3)

\* The size of one position before the budget cap.
SignalSize(base_allocation, crash_mode, signal_type, vol_ratio) ==
    LET s1 == IF crash_mode
              THEN IF vol_ratio > 180 THEN Times(base_allocation, 6, 10)
                   ELSE IF vol_ratio < 80
                        THEN Min(base_allocation, Times(base_allocation, 12, 10))
                        ELSE base_allocation
              ELSE IF vol_ratio > 150 THEN Times(base_allocation, 5, 10)
                   ELSE IF vol_ratio < 70
                        THEN Min(base_allocation, Times(base_allocation, 13, 10))
                        ELSE base_allocation
    IN  IF signal_type = "reversal"
        THEN IF crash_mode THEN Times(s1, 75, 100) ELSE Times(s1, 6, 10)
        ELSE s1

\* size = min(size, budget_remaining)
CapSize(size, budget_remaining) == Min(size, budget_remaining)

\* shares = math.floor(size / price) if price > 0 else 0
SharesFor(size, price) == IF price > 0 THEN size \div price ELSE 0

\* Mutant of Deduct: the accepted notional is not taken off the budget.
DeductNothing(budget_remaining, notional) == budget_remaining

\* budget_remaining -= notional
Deduct(budget_remaining, notional) == budget_remaining - notional

AllocKeys == {s \in Symbols : al_alloc[s] > 0}

\* No call of allocate_positions is in progress.
AllocLocalsCleared ==
    /\ al_crash = FALSE
    /\ al_n = 0
    /\ al_i = 0
    /\ al_remaining = 0
    /\ al_base = 0
    /\ al_alloc = [s \in Symbols |-> 0]
    /\ al_price = [s \in Symbols |-> 0]
    /\ al_accepted = 0
    /\ al_spent = 0

AllocOff == al_pc = "off" /\ al_budget = 0 /\ AllocLocalsCleared

AllocInit == al_pc = "idle" /\ al_budget \in Budgets /\ AllocLocalsCleared

\* allocate_positions(final_signals, crash_mode) is called: an empty list
\* returns {} at once.
AllocStart ==
    /\ al_pc = "idle"
    /\ \E crash_mode \in BOOLEAN, n \in 0..MaxSignals :
        /\ al_crash' = crash_mode
        /\ al_n' = n
        /\ al_pc' = IF n = 0 THEN "done" ELSE "loop"
        /\ al_remaining' = StartBudget(al_budget, crash_mode)
        /\ al_base' = BaseAllocation(al_budget, crash_mode)
    /\ al_i' = 1
    /\ al_alloc' = [s \in Symbols |-> 0]
    /\ al_price' = [s \in Symbols |-> 0]
    /\ al_accepted' = 0
    /\ al_spent' = 0
    /\ UNCHANGED <<otherThanAlloc, al_budget>>

\* continue: the signal is passed over.
AllocSkip ==
    /\ al_i' = al_i + 1
    /\ UNCHANGED <<otherThanAlloc, al_pc, al_budget, al_crash, al_n, al_remaining,
                   al_base, al_alloc, al_price, al_accepted, al_spent>>

\* One iteration of the loop over final_signals.
AllocStep ==
    /\ al_pc = "loop"
    /\ al_i <= al_n
    /\ IF al_crash /\ Cardinality(AllocKeys) >= 3
       THEN \* break: crash mode max positions reached
            /\ al_pc' = "done"
            /\ UNCHANGED <<otherThanAlloc, al_budget, al_crash, al_n, al_i,
                           al_remaining, al_base, al_alloc, al_price, al_accepted, al_spent>>
       ELSE \E symbol \in Symbols, signal_type \in SignalTypes,
               vol_ratio \in VolRatios, got \in {Raise} \cup {Ok(p) : p \in Prices} :
            IF got.kind = "raise"
            THEN AllocSkip
            ELSE LET price    == Dollars(got.val)
                     size     == CapSize(SignalSize(al_base, al_crash, signal_type,
                                                    vol_ratio), al_remaining)
                     shares   == SharesFor(size, price)
                     notional == shares * price
                 IN  IF shares <= 0 \/ notional > al_remaining
                     THEN AllocSkip
                     ELSE /\ al_alloc' = [al_alloc EXCEPT ![symbol] = shares]
                          /\ al_price' = [al_price EXCEPT ![symbol] = price]
                          /\ al_remaining' = Deduct(al_remaining, notional)
                          /\ al_accepted' = al_accepted + 1
                          /\ al_spent' = al_spent + notional
                          /\ al_i' = al_i + 1
                          /\ al_pc' = IF al_remaining' <= 0 THEN "done" ELSE "loop"
                          /\ UNCHANGED <<otherThanAlloc, al_budget, al_crash, al_n,
                                         al_base>>

\* The loop is over: return allocations.
AllocFinish ==
    /\ al_pc = "loop"
    /\ al_i > al_n
    /\ al_pc' = "done"
    /\ UNCHANGED <<otherThanAlloc, al_budget, al_crash, al_n, al_i, al_remaining,
                   al_base, al_alloc, al_price, al_accepted, al_spent>>

\* The caller takes the allocations; the next cycle calls again.
AllocReturn ==
    /\ al_pc = "done"
    /\ al_pc' = "idle"
    /\ al_crash' = FALSE
    /\ al_n' = 0
    /\ al_i' = 0
    /\ al_remaining' = 0
    /\ al_base' = 0
    /\ al_alloc' = [s \in Symbols |-> 0]
    /\ al_price' = [s \in Symbols |-> 0]
    /\ al_accepted' = 0
    /\ al_spent' = 0
    /\ UNCHANGED <<otherThanAlloc, al_budget>>

NextAlloc ==
    \/ AllocStart
    \/ AllocStep
    \/ AllocFinish
    \/ AllocReturn

-----------------------------------------------------------------------------
(* Exit evaluation: trader/risk_model.py should_exit *)

\* Percentages are counted in thousandths.
STOP_LOSS_PCT == 6

TAKE_PROFIT_PCT == 18

\* Prices are counted in cents. 0 is also what a missing price reads as.
EntryPrices == {0, 1000, -1000}

CurrentPrices == {0, 990, 994, 995, 996, 1000, 1014, 1016, 1017, 1018, 1100, -1000}

\* Minutes since entry_timestamp, when it is a number.
MinutesHeld == {30, 60, 75, 90, 120}

\* entry_timestamp: missing (no key / no attribute), None, not a number, or a
\* number.
Timestamps ==
    {[kind |-> k, elapsed |-> 0] : k \in {"absent", "none", "invalid"}}
        \cup {[kind |-> "num", elapsed |-> m] : m \in MinutesHeld}

\* The position argument: a dict, or an object with attributes.
Positions ==
    [is_dict : BOOLEAN, current_price : CurrentPrices, entry_price : EntryPrices,
     symbol : {"AAA", "None"}, entry_timestamp : Timestamps]

\* The bar lookup raises, or the exit filter says exit, or it says hold.
BarAnswers == {"raise", "exit", "hold"}

tp_pct(crash_mode) == IF crash_mode THEN 15 ELSE TAKE_PROFIT_PCT

sl_pct(crash_mode) == IF crash_mode THEN 5 ELSE STOP_LOSS_PCT

max_minutes(crash_mode) == IF crash_mode THEN 60 ELSE 90

\* gain = (price / entry) - 1 compared with pct thousandths, entry # 0.
GainAtLeast(price, entry, pct) ==
    IF entry > 0 THEN 1000 * (price - entry) >= pct * entry
    ELSE 1000 * (price - entry) <= pct * entry

GainAtMost(price, entry, pct) ==
    IF entry > 0 THEN 1000 * (price - entry) <= pct * entry
    ELSE 1000 * (price - entry) >= pct * entry

\* gain >= tp_pct or gain <= -sl_pct
GainExit(price, entry, crash_mode) ==
    \/ GainAtLeast(price, entry, tp_pct(crash_mode))
    \/ GainAtMost(price, entry, 0 - sl_pct(crash_mode))

Verdict(r, f) == [result |-> r, fetched |-> f]

\* price_router.get_aggregates(symbol, window=120): PriceRouter.get_aggregates
\* takes symbol, timespan and limit; any other keyword is a TypeError.
accepts_window == "window" \in {"symbol", "timespan", "limit"}

\* The part of should_exit after the gain test: the time stop, then the
\* technical exit filter on fresh bars.
TimeAndFilterExit(position, crash_mode, bars) ==
    LET ts == position.entry_timestamp
    IN  IF ts.kind = "absent" /\ ~position.is_dict
        THEN Verdict("raise", FALSE)   \* object without .get: AttributeError
        ELSE IF ts.kind \in {"absent", "none"} THEN Verdict("False", FALSE)
        ELSE IF ts.kind = "invalid" THEN Verdict("False", FALSE)
        ELSE IF ts.elapsed >= max_minutes(crash_mode) THEN Verdict("True", FALSE)
        ELSE IF position.symbol # "None"
             THEN IF ~accepts_window \/ bars \in {"raise", "exit"}
                  THEN Verdict("True", TRUE)
                  ELSE Verdict("False", TRUE)
             ELSE Verdict("False", FALSE)

\* Mutant of should_exit: the time stop and exit filter are consulted before
\* the gain thresholds.
should_exit_time_first(position, crash_mode, bars) ==
    LET price == position.current_price
        entry == position.entry_price
        later == TimeAndFilterExit(position, crash_mode, bars)
    IN  IF price = 0 \/ entry = 0 THEN Verdict("True", FALSE)
        ELSE IF later.result # "True" THEN later
        ELSE IF GainExit(price, entry, crash_mode) THEN Verdict("True", FALSE)
        ELSE later

\* should_exit(position, crash_mode)
should_exit(position, crash_mode, bars) ==
    LET price == position.current_price
        entry == position.entry_price
    IN  IF price = 0 \/ entry = 0 THEN Verdict("True", FALSE)
        ELSE IF GainExit(price, entry, crash_mode) THEN Verdict("True", FALSE)
        ELSE TimeAndFilterExit(position, crash_mode, bars)

NoPosition ==
    [is_dict |-> TRUE, current_price |-> 0, entry_price |-> 0, symbol |-> "None",
     entry_timestamp |-> [kind |-> "absent", elapsed |-> 0]]

ExitIdle ==
    /\ ex_position = NoPosition
    /\ ex_crash = FALSE
    /\ ex_bars = "hold"
    /\ ex_result = "None"
    /\ ex_fetched = FALSE

ExitOff == ex_pc = "off" /\ ExitIdle

ExitInit == ex_pc = "idle" /\ ExitIdle

\* should_exit is called and answers.
ShouldExitCall ==
    /\ ex_pc = "idle"
    /\ \E position \in Positions, crash_mode \in BOOLEAN, bars \in BarAnswers :
        LET v == should_exit(position, crash_mode, bars)
        IN  /\ ex_position' = position
            /\ ex_crash' = crash_mode
            /\ ex_bars' = bars
            /\ ex_result' = v.result
            /\ ex_fetched' = v.fetched
    /\ ex_pc' = "done"
    /\ UNCHANGED otherThanExit

\* The caller acts on the answer; the next position is evaluated.
ShouldExitReturn ==
    /\ ex_pc = "done"
    /\ ex_pc' = "idle"
    /\ ex_position' = NoPosition
    /\ ex_crash' = FALSE
    /\ ex_bars' = "hold"
    /\ ex_result' = "None"
    /\ ex_fetched' = FALSE
    /\ UNCHANGED otherThanExit

NextExit ==
    \/ ShouldExitCall
    \/ ShouldExitReturn

-----------------------------------------------------------------------------
(* Portfolio ledger: trader/portfolio_state.py and services/trading.py *)

\* Last day number the clock reaches.
MaxDay == 2

\* settings.initial_equity
InitialEquity == 100000

Days == 1..MaxDay

TraderKeys == {"date", "equity", "daily_pnl", "positions"}

ServicesKeys == {"date", "budget_used", "positions"}

ResetKeys == {"positions", "last_updated"}

\* A JSON document, or what stands in its place. kind: "object" or "list" (any
\* JSON value that is not an object) for a parsed document; for a file also
\* "missing", "unreadable" (open fails with OSError), "garbage" (text that is
\* not JSON) and "binary" (bytes that are not UTF-8). keys are the keys of the
\* object; a field whose key is absent holds 0, <<>> or FALSE. positions is
\* the list of trades; pos_dict says the value of "positions" is the dict {}.
Doc(kind, keys, date, equity, daily_pnl, budget_used, positions, pos_dict, stamp) ==
    [kind |-> kind, keys |-> keys, date |-> date, equity |-> equity,
     daily_pnl |-> daily_pnl, budget_used |-> budget_used, positions |-> positions,
     pos_dict |-> pos_dict, last_updated |-> stamp]

Bare(kind) == Doc(kind, {}, 0, 0, 0, 0, <<>>, FALSE, 0)

NoDoc == Bare("none")

Trade1 == [symbol |-> "AAA", qty |-> 2, price |-> 40]

Trade2 == [symbol |-> "BBB", qty |-> 1, price |-> 350]

PositionLists == {<<>>, <<Trade1>>, <<Trade1, Trade2>>}

\* State objects as trader/portfolio_state.py keeps them.
TraderDocs ==
    {Doc("object", TraderKeys, d, e, p, 0, ps, FALSE, 0) :
        d \in Days, e \in {InitialEquity, 50}, p \in {0, -3}, ps \in PositionLists}

\* State objects as services/trading.py keeps them.
ServicesDocs ==
    {Doc("object", ServicesKeys, d, 0, 0, b, ps, FALSE, 0) :
        d \in Days, b \in {0, 120}, ps \in PositionLists}

\* Objects that lack keys: {}, {"equity": 50}, and what reset_state writes.
PartialDocs ==
    {Bare("object"),
     Doc("object", {"equity"}, 0, 50, 0, 0, <<>>, FALSE, 0),
     Doc("object", ResetKeys, 0, 0, 0, 0, <<>>, TRUE, 1)}

\* What the state file may hold when the process comes up.
FileDocs ==
    {Bare(k) : k \in {"missing", "unreadable", "garbage", "binary", "list"}}
        \cup TraderDocs \cup ServicesDocs \cup PartialDocs

\* The text of a file: a document as written with some indentation.
Text(doc, indent) == [doc |-> doc, indent |-> indent]

\* json.dump(state, handle, indent=2): the text written.
Dumped(state) == Text(state, 2)

\* json.load(handle): the document read; the layout of the text is gone.
Parsed(text) == text.doc

FileTexts == {Text(doc, indent) : doc \in FileDocs, indent \in {0, 2}}

\* state.get("date"): 0 stands for None.
DateOf(state) == IF "date" \in state.keys THEN state.date ELSE 0

\* services/trading.py _empty_portfolio_state
_empty_portfolio_state(today) ==
    Doc("object", ServicesKeys, today, 0, 0, 0, <<>>, FALSE, 0)

\* trader/portfolio_state.py reset_state: the state it builds, saves and returns.
reset_state(now) == Doc("object", ResetKeys, 0, 0, 0, 0, <<>>, TRUE, now)

\* Mutant of ensure_today_state: the ledger is reset whatever the stored date.
ensure_today_state_always(state, today) ==
    [state EXCEPT !.keys = @ \cup TraderKeys,
                  !.date = today,
                  !.daily_pnl = 0,
                  !.equity = IF "equity" \in state.keys THEN @ ELSE InitialEquity,
                  !.positions = <<>>,
                  !.pos_dict = FALSE]

\* trader/portfolio_state.py ensure_today_state
ensure_today_state(state, today) ==
    IF DateOf(state) # today
    THEN [state EXCEPT !.keys = @ \cup TraderKeys,
                       !.date = today,
                       !.daily_pnl = 0,
                       !.equity = IF "equity" \in state.keys THEN @ ELSE InitialEquity,
                       !.positions = <<>>,
                       !.pos_dict = FALSE]
    ELSE state

\* The file cannot be read as a JSON object with content: load_state resets.
TraderUnusable(file) ==
    \/ file.kind \in {"missing", "unreadable", "garbage", "list"}
    \/ file.kind = "object" /\ file.keys = {}

\* What a load answers: [outcome, state, file]. outcome "raise": the call
\* raises; file is what the state file holds afterwards. io says whether a
\* write to the file succeeds.
Loaded(outcome, state, file) == [outcome |-> outcome, state |-> state, file |-> file]

\* trader/portfolio_state.py load_state
load_state(file, today, io) ==
    IF file.kind = "binary" THEN Loaded("raise", NoDoc, file)  \* UnicodeDecodeError
    ELSE IF TraderUnusable(file)
         THEN IF io = "ok"
              THEN Loaded("ok", reset_state(today), reset_state(today))
              ELSE Loaded("raise", NoDoc, file)             \* save_state: OSError
         ELSE Loaded("ok", ensure_today_state(file, today), file)

\* services/trading.py _load_portfolio_state_unlocked
_load_portfolio_state_unlocked(file, today) ==
    IF file.kind = "binary" THEN Loaded("raise", NoDoc, file)  \* UnicodeDecodeError
    ELSE IF file.kind \in {"missing", "unreadable", "garbage"}
         THEN Loaded("ok", _empty_portfolio_state(today), file)
         ELSE Loaded("ok", file, file)

\* services/trading.py _ensure_today_portfolio_state_unlocked
_ensure_today_portfolio_state_unlocked(file, today, io) ==
    LET l == _load_portfolio_state_unlocked(file, today)
    IN  IF l.outcome = "raise" THEN l
        ELSE IF l.state.kind = "list"
             THEN Loaded("raise", NoDoc, file)              \* list has no .get
             ELSE IF DateOf(l.state) # today
                  THEN Loaded("ok", _empty_portfolio_state(today),
                              IF io = "ok" THEN _empty_portfolio_state(today) ELSE file)
                  ELSE l

IoAnswers == {"ok", "oserror"}

Op(op, outcome) == [op |-> op, outcome |-> outcome]

LedgerCleared ==
    /\ pf_mem = NoDoc
    /\ pf_origin = NoDoc
    /\ pf_origin_day = 0
    /\ pf_last = Op("none", "ok")

LedgerOff ==
    /\ pf_impl = "off"
    /\ pf_today = 1
    /\ pf_file = Text(Bare("missing"), 0)
    /\ LedgerCleared

LedgerInit ==
    /\ pf_impl \in {"trader", "services"}
    /\ pf_today = 1
    /\ pf_file \in FileTexts
    /\ LedgerCleared

\* The outcome l of a load is taken by the caller.
TakeLoaded(op, l) ==
    /\ pf_mem' = l.state
    /\ pf_file' = IF l.file # Parsed(pf_file) THEN Dumped(l.file) ELSE pf_file
    /\ pf_origin' = Parsed(pf_file)
    /\ pf_origin_day' = pf_today
    /\ pf_last' = Op(op, l.outcome)
    /\ UNCHANGED <<otherThanLedger, pf_impl, pf_today>>

\* trader/portfolio_state.py: load_state(path, settings) is called.
LoadState ==
    /\ pf_impl = "trader"
    /\ \E io \in IoAnswers : TakeLoaded("load", load_state(Parsed(pf_file), pf_today, io))

\* services/trading.py: _load_portfolio_state_unlocked() is called.
LoadPortfolioState ==
    /\ pf_impl = "services"
    /\ TakeLoaded("load", _load_portfolio_state_unlocked(Parsed(pf_file), pf_today))

\* services/trading.py: _ensure_today_portfolio_state_unlocked() is called.
EnsureTodayPortfolioState ==
    /\ pf_impl = "services"
    /\ \E io \in IoAnswers :
        TakeLoaded("ensure",
                   _ensure_today_portfolio_state_unlocked(Parsed(pf_file), pf_today, io))

\* trader/portfolio_state.py save_state(path, state): an OSError is raised to
\* the caller.
SaveState ==
    /\ pf_impl = "trader"
    /\ pf_mem.kind \in {"object", "list"}
    /\ \E io \in IoAnswers :
        /\ pf_file' = IF io = "ok" THEN Dumped(pf_mem) ELSE pf_file
        /\ pf_last' = Op("save", IF io = "ok" THEN "ok" ELSE "raise")
    /\ UNCHANGED <<otherThanLedger, pf_impl, pf_today, pf_mem, pf_origin,
                   pf_origin_day>>

\* services/trading.py _save_portfolio_state_unlocked(state): an OSError is
\* logged and swallowed.
SavePortfolioState ==
    /\ pf_impl = "services"
    /\ pf_mem.kind \in {"object", "list"}
    /\ \E io \in IoAnswers :
        /\ pf_file' = IF io = "ok" THEN Dumped(pf_mem) ELSE pf_file
        /\ pf_last' = Op("save", "ok")
    /\ UNCHANGED <<otherThanLedger, pf_impl, pf_today, pf_mem, pf_origin,
                   pf_origin_day>>

\* Longest list of positions a recorded trade is appended to.
MaxTrades == 3

\* state.setdefault("positions", []) with a dict replaced by [], then
\* positions.append(trade)
WithTrade(state, trade) ==
    [state EXCEPT !.keys = @ \cup {"positions"},
                  !.positions = IF state.pos_dict THEN <<trade>> ELSE Append(@, trade),
                  !.pos_dict = FALSE]

\* trader/portfolio_state.py record_trade(state, symbol, ...): the trade is
\* appended to the state the caller holds; nothing is written.
RecordTrade ==
    /\ pf_impl = "trader"
    /\ pf_mem.kind = "object"
    /\ Len(pf_mem.positions) < MaxTrades
    /\ \E trade \in {Trade1, Trade2} :
        pf_mem' = WithTrade(pf_mem, trade)
    /\ pf_origin' = NoDoc
    /\ pf_origin_day' = 0
    /\ pf_last' = Op("record", "ok")
    /\ UNCHANGED <<otherThanLedger, pf_impl, pf_today, pf_file>>

\* state["budget_used"] = float(state.get("budget_used", 0.0)) + cost
WithCost(state, cost) ==
    [state EXCEPT !.keys = @ \cup {"budget_used"},
                  !.budget_used = @ + cost]

\* services/trading.py _record_portfolio_trade(symbol, qty, price, ...):
\* today's state is loaded, charged and extended, and saved.
RecordPortfolioTrade ==
    /\ pf_impl = "services"
    /\ \E trade \in {Trade1, Trade2}, io1 \in IoAnswers, io2 \in IoAnswers :
        LET l == _ensure_today_portfolio_state_unlocked(Parsed(pf_file), pf_today, io1)
            state == WithTrade(WithCost(l.state, trade.qty * trade.price), trade)
            kept == IF l.file # Parsed(pf_file) THEN Dumped(l.file) ELSE pf_file
        IN  IF l.outcome = "raise"
            THEN /\ pf_mem' = NoDoc
                 /\ pf_file' = pf_file
                 /\ pf_last' = Op("record", "raise")
            ELSE /\ Len(l.state.positions) < MaxTrades
                 /\ pf_mem' = state
                 /\ pf_file' = IF io2 = "ok" THEN Dumped(state) ELSE kept
                 /\ pf_last' = Op("record", "ok")
    /\ pf_origin' = NoDoc
    /\ pf_origin_day' = 0
    /\ UNCHANGED <<otherThanLedger, pf_impl, pf_today>>

\* Midnight passes.
NewDay ==
    /\ pf_impl \in {"trader", "services"}
    /\ pf_today < MaxDay
    /\ pf_today' = pf_today + 1
    /\ UNCHANGED <<otherThanLedger, pf_impl, pf_file, pf_mem, pf_origin,
                   pf_origin_day, pf_last>>

NextLedger ==
    \/ LoadState
    \/ LoadPortfolioState
    \/ EnsureTodayPortfolioState
    \/ SaveState
    \/ SavePortfolioState
    \/ RecordTrade
    \/ RecordPortfolioTrade
    \/ NewDay

-----------------------------------------------------------------------------
(* Order executor: trader/order_executor.py execute_trades, and the brokerage *)

\* Calls of execute_trades in one run.
MaxCalls == 2

ExecSymbols == {"AAA", "BBB"}

\* Share counts an allocation may carry (allocate_positions gives positive
\* ones; the loop also guards against the others).
ShareCounts == {0, 2}

\* float(account.buying_power), in dollars; 0 also when the lookup fails.
BuyingPowers == {0, 100, 1000}

\* allocations.items() in the order of the dict: every order of the keys.
ItemOrders(keys) ==
    {q \in [1..Cardinality(keys) -> keys] : \A i, j \in 1..Cardinality(keys) :
                                                q[i] = q[j] => i = j}

NoShares == [s \in ExecSymbols |-> 0]

\* An order as submit_order received it, with the answer: "ok" or "raise".
Order(symbol, qty, answer) == [symbol |-> symbol, qty |-> qty, answer |-> answer]

NoOrder == Order("None", 0, "none")

\* Prices price_router.get_price may return to execute_trades, in dollars.
ExecPrices == Prices \cup {100}

\* round(x, 2) of x = n / d dollars, in cents: the nearest cent, the even
\* one of two equally near.
RoundCents(n, d) ==
    LET q == (100 * n) \div d
        r == (100 * n) % d
    IN  IF 2 * r > d \/ (2 * r = d /\ q % 2 = 1) THEN q + 1 ELSE q

\* trader/risk_model.py: round(entry_price * (1 + pct), 2), pct in
\* thousandths, the result in cents.
take_profit_price(entry_price, crash_mode) ==
    RoundCents(entry_price * (1000 + (IF crash_mode THEN 15 ELSE TAKE_PROFIT_PCT)),
               1000)

\* round(entry_price * (1 - pct), 2)
stop_loss_price(entry_price, crash_mode) ==
    RoundCents(entry_price * (1000 - (IF crash_mode THEN 5 ELSE STOP_LOSS_PCT)),
               1000)

\* What the bars and the winning signal of a symbol say when its order is
\* built: the ATR in dollars, and the take-profit and stop-loss multiples in
\* tenths.  execute_trades is given neither.
Atrs == {2}

Multiples == {[tp |-> 30, sl |-> 15]}

\* The bracket of an order: entry price in dollars, limit and stop prices
\* in cents.
Bracket(price, take_profit, stop_loss, atr, multiples) ==
    [price |-> price, take_profit |-> take_profit, stop_loss |-> stop_loss,
     atr |-> atr, multiples |-> multiples]

NoBracket == Bracket(0, 0, 0, 0, [tp |-> 0, sl |-> 0])

ExecLocalsCleared ==
    /\ xt_crash = FALSE
    /\ xt_shares = NoShares
    /\ xt_queue = <<>>
    /\ xt_open = {}
    /\ xt_buying_power = 0
    /\ xt_fetch = "none"

ExecOff ==
    /\ xt_pc = "off"
    /\ xt_client = FALSE
    /\ xt_calls = 0
    /\ br_positions = {}
    /\ br_pending = {}
    /\ xt_submitted = NoShares
    /\ xt_held_submit = {}
    /\ xt_last_order = NoOrder
    /\ xt_bracket = NoBracket
    /\ ExecLocalsCleared

ExecInit ==
    /\ xt_pc = "idle"
    /\ xt_client \in BOOLEAN
    /\ xt_calls = 0
    /\ br_positions \in SUBSET ExecSymbols
    /\ br_pending = {}
    /\ xt_submitted = NoShares
    /\ xt_held_submit = {}
    /\ xt_last_order = NoOrder
    /\ xt_bracket = NoBracket
    /\ ExecLocalsCleared

\* execute_trades(allocations, crash_mode) with nothing to do: no allocations
\* or no trading client.
ExecuteTradesNothing ==
    /\ xt_pc = "idle"
    /\ xt_calls < MaxCalls
    /\ \E keys \in SUBSET ExecSymbols :
        keys = {} \/ ~xt_client
    /\ xt_calls' = xt_calls + 1
    /\ UNCHANGED <<otherThanExec, br_positions, br_pending, xt_pc, xt_client,
                   xt_crash, xt_shares, xt_queue, xt_open, xt_buying_power,
                   xt_submitted, xt_held_submit,
                   xt_last_order,
                   xt_bracket, xt_fetch>>

\* execute_trades(allocations, crash_mode) up to the loop: open positions and
\* buying power are fetched; a failed fetch of the positions leaves
\* open_positions empty, a failed fetch of the buying power leaves 0.
ExecuteTradesStart ==
    /\ xt_pc = "idle"
    /\ xt_calls < MaxCalls
    /\ xt_client
    /\ \E keys \in (SUBSET ExecSymbols) \ {{}} :
        /\ xt_queue' \in ItemOrders(keys)
        /\ \E shares \in [keys -> ShareCounts] :
            xt_shares' = [s \in ExecSymbols |-> IF s \in keys THEN shares[s] ELSE 0]
    /\ xt_crash' \in BOOLEAN
    /\ \E fetched \in {"ok", "raise"} :
        /\ xt_open' = IF fetched = "ok" THEN br_positions ELSE {}
        /\ xt_fetch' = fetched
    /\ xt_buying_power' \in BuyingPowers
    /\ xt_calls' = xt_calls + 1
    /\ xt_pc' = "loop"
    /\ UNCHANGED <<otherThanExec, br_positions, br_pending, xt_client,
                   xt_submitted, xt_held_submit,
                   xt_last_order, xt_bracket>>

\* The rest of the loop is left alone.
ExecuteContinue ==
    /\ xt_queue' = Tail(xt_queue)
    /\ UNCHANGED <<otherThanExec, br_positions, br_pending, xt_pc, xt_client,
                   xt_calls, xt_crash, xt_shares, xt_open, xt_buying_power,
                   xt_submitted, xt_held_submit,
                   xt_last_order,
                   xt_bracket, xt_fetch>>

\* trading_client.submit_order(order) for symbol at price: the brokerage
\* accepts the order or the call raises.
SubmitOrder(symbol, price) ==
    /\ xt_submitted' = [xt_submitted EXCEPT ![symbol] = @ + 1]
    /\ xt_held_submit' = IF symbol \in br_positions
                         THEN xt_held_submit \cup {symbol}
                         ELSE xt_held_submit
    /\ \E answer \in {"ok", "raise"} :
        /\ xt_last_order' = Order(symbol, xt_shares[symbol], answer)
        /\ \E atr \in Atrs, multiples \in Multiples :
              xt_bracket' = Bracket(price, take_profit_price(price, xt_crash),
                                    stop_loss_price(price, xt_crash), atr, multiples)
        /\ br_pending' = IF answer = "ok" THEN br_pending \cup {symbol} ELSE br_pending
        /\ xt_buying_power' =
              IF answer = "ok" /\ xt_buying_power # 0
              THEN IF xt_buying_power - xt_shares[symbol] * price > 0
                   THEN xt_buying_power - xt_shares[symbol] * price
                   ELSE 0
              ELSE xt_buying_power
    /\ xt_queue' = Tail(xt_queue)
    /\ UNCHANGED <<otherThanExec, br_positions, xt_pc, xt_client, xt_calls,
                   xt_crash, xt_shares, xt_open, xt_fetch>>

\* One pass of the loop of execute_trades.
ExecuteTradesStep ==
    /\ xt_pc = "loop"
    /\ xt_queue # <<>>
    /\ LET symbol == Head(xt_queue)
       IN  IF xt_shares[symbol] <= 0 \/ symbol \in xt_open
           THEN ExecuteContinue
           ELSE \/ ExecuteContinue                       \* get_price raises
                \/ \E price \in ExecPrices :
                      IF xt_buying_power # 0
                         /\ xt_shares[symbol] * price > xt_buying_power
                      THEN ExecuteContinue
                      ELSE SubmitOrder(symbol, price)

\* execute_trades returns when the loop is over.
ExecuteTradesReturn ==
    /\ xt_pc = "loop"
    /\ xt_queue = <<>>
    /\ xt_pc' = "idle"
    /\ xt_crash' = FALSE
    /\ xt_shares' = NoShares
    /\ xt_open' = {}
    /\ xt_buying_power' = 0
    /\ xt_fetch' = "none"
    /\ xt_bracket' = NoBracket
    /\ UNCHANGED <<otherThanExec, br_positions, br_pending, xt_client, xt_calls,
                   xt_queue, xt_submitted, xt_held_submit,
                   xt_last_order>>

\* The brokerage fills an accepted entry order: the symbol becomes a position.
BrokerFill ==
    /\ xt_pc # "off"
    /\ \E s \in br_pending :
        /\ br_pending' = br_pending \ {s}
        /\ br_positions' = br_positions \cup {s}
    /\ UNCHANGED <<otherThanExec, xt_pc, xt_client, xt_calls, xt_crash, xt_shares,
                   xt_queue, xt_open, xt_buying_power, xt_submitted,
                   xt_held_submit,
                   xt_last_order,
                   xt_bracket, xt_fetch>>

\* A bracket leg fills at the brokerage: the position is gone.
BrokerExit ==
    /\ xt_pc # "off"
    /\ \E s \in br_positions :
        br_positions' = br_positions \ {s}
    /\ UNCHANGED <<otherThanExec, br_pending, xt_pc, xt_client, xt_calls, xt_crash,
                   xt_shares, xt_queue, xt_open, xt_buying_power, xt_submitted,
                   xt_held_submit,
                   xt_last_order,
                   xt_bracket, xt_fetch>>

NextExec ==
    \/ ExecuteTradesNothing
    \/ ExecuteTradesStart
    \/ ExecuteTradesStep
    \/ ExecuteTradesReturn
    \/ BrokerFill
    \/ BrokerExit

-----------------------------------------------------------------------------
(* Signal router: strategy/signal_router.py route_signals *)

\* Longest universe handed to route_signals.
MaxUniverse == 5

UniverseNames == <<"AAA", "BBB", "CCC", "DDD", "EEE", "FFF", "GGG">>

\* The universes: the first n names.
Universes == {Prefix(UniverseNames, n) : n \in 0..Min(MaxUniverse, Len(UniverseNames))}

\* The members of a universe that the ML pass returned a prediction for, in
\* the order of the universe.
RECURSIVE Kept(_, _)
Kept(universe, S) ==
    IF universe = <<>> THEN <<>>
    ELSE IF Head(universe) \in S
         THEN <<Head(universe)>> \o Kept(Tail(universe), S)
         ELSE Kept(Tail(universe), S)

Range(q) == {q[i] : i \in DOMAIN q}

\* ML probabilities, rank components and sentiment scores, in hundredths.
Probs == {10, 22, 28, 29, 30, 60}

Ranks == {0, 50, 100}

Sentiments == {0, 50, 100}

ml_threshold_trend == 22

ml_threshold_reversal == 28

\* max(ml_threshold_reversal, 0.30 if crash_mode else ml_threshold_reversal)
reverse_prob_cutoff(crash_mode) ==
    IF crash_mode /\ 30 > ml_threshold_reversal THEN 30 ELSE ml_threshold_reversal

\* score_threshold, in thousandths
score_threshold == 320

\* 0.4 * rank_component + 0.2 * 1.0 + 0.2 * sentiment + 0.2 * prob, in
\* thousandths
final_score(rank_component, sentiment, prob) ==
    4 * rank_component + 200 + 2 * sentiment + 2 * prob

\* What the bars say to the tests: entry (passes_entry_filter, vol_ok and the
\* slopes of momentum_base), dip (short_slope < -0.20 and vol_ratio > 1.1),
\* turn (momentum within the band, volatility_ratio > 1.05 and a non-zero
\* reversal_score).
BarFacts == [entry : BOOLEAN, dip : BOOLEAN, turn : BOOLEAN]

\* The signal one symbol gives: "momentum", "dip buy", "reversal" or "none".
SignalFor(crash_mode, prob, rank_component, sentiment, facts) ==
    LET reversal_allowed == facts.turn /\ prob >= reverse_prob_cutoff(crash_mode)
        momentum_base == prob >= ml_threshold_trend /\ facts.entry
        momentum_signal ==
            momentum_base /\ final_score(rank_component, sentiment, prob) > score_threshold
        dip_buy_ok == facts.dip /\ prob > ml_threshold_reversal
    IN  IF momentum_signal THEN "momentum"
        ELSE IF dip_buy_ok THEN "dip buy"
        ELSE IF reversal_allowed THEN "reversal"
        ELSE "none"

\* The signal appended for a symbol.
Signal(symbol, reason) ==
    [symbol |-> symbol,
     type |-> IF reason = "momentum" THEN "momentum" ELSE "reversal",
     reason |-> reason]

\* Mutant of CapReached: the cap is never reached.
CapNever(crash_mode, signals) == FALSE

\* crash_mode and len(signals) >= 3
CapReached(crash_mode, signals) == crash_mode /\ Len(signals) >= 3

SignalsLocalsCleared ==
    /\ rs_crash = FALSE
    /\ rs_prefetched = {}
    /\ rs_preds = <<>>
    /\ rs_signals = <<>>
    /\ rs_sentiment = {}
    /\ rs_fetched = {}
    /\ rs_tested = {}

SignalsOff == rs_pc = "off" /\ SignalsLocalsCleared

SignalsInit == rs_pc = "idle" /\ SignalsLocalsCleared

\* route_signals(universe, crash_mode) up to the loop: the momentum pass and
\* the ML pass go over the whole universe, and the ML pass returns the
\* symbols it has bars for.
RouteSignalsStart ==
    /\ rs_pc = "idle"
    /\ rs_crash' \in BOOLEAN
    /\ \E universe \in Universes :
        /\ rs_prefetched' = Range(universe)
        /\ \E S \in SUBSET Range(universe) : rs_preds' = Kept(universe, S)
    /\ rs_signals' = <<>>
    /\ rs_pc' = "loop"
    /\ UNCHANGED <<otherThanSignals, rs_sentiment, rs_fetched, rs_tested>>

\* The pass of the loop ends: the cap is tested, and the loop breaks or goes
\* on to the next prediction.
EndOfPass(signals) ==
    /\ rs_signals' = signals
    /\ IF CapReached(rs_crash, signals)
       THEN rs_pc' = "done" /\ rs_preds' = rs_preds
       ELSE rs_pc' = "loop" /\ rs_preds' = Tail(rs_preds)

\* continue: the next prediction, the cap is not tested.
ContinuePass ==
    /\ rs_signals' = rs_signals
    /\ rs_pc' = "loop"
    /\ rs_preds' = Tail(rs_preds)

\* One pass of the loop of route_signals, for the prediction at the head.
RouteSignalsStep ==
    /\ rs_pc = "loop"
    /\ rs_preds # <<>>
    /\ LET symbol == Head(rs_preds)
       IN  \E prob \in Probs :
            IF prob < ml_threshold_trend
            THEN /\ ContinuePass
                 /\ UNCHANGED <<rs_sentiment, rs_fetched, rs_tested>>
            ELSE /\ rs_sentiment' = rs_sentiment \cup {symbol}
                 /\ rs_fetched' = rs_fetched \cup {symbol}
                 /\ \E bars \in {"raise", "empty", "ok"} :
                      IF bars # "ok"
                      THEN ContinuePass /\ rs_tested' = rs_tested
                      ELSE /\ rs_tested' = rs_tested \cup {symbol}
                           /\ \E rank \in Ranks, sentiment \in Sentiments,
                                 facts \in BarFacts :
                                LET reason ==
                                        SignalFor(rs_crash, prob, rank, sentiment, facts)
                                IN  EndOfPass(IF reason = "none"
                                              THEN rs_signals
                                              ELSE Append(rs_signals,
                                                          Signal(symbol, reason)))
    /\ UNCHANGED <<otherThanSignals, rs_crash, rs_prefetched>>

\* The predictions are used up: the loop is over.
RouteSignalsFinish ==
    /\ rs_pc = "loop"
    /\ rs_preds = <<>>
    /\ rs_pc' = "done"
    /\ UNCHANGED <<otherThanSignals, rs_crash, rs_prefetched, rs_preds, rs_signals,
                   rs_sentiment, rs_fetched, rs_tested>>

\* return signals
RouteSignalsReturn ==
    /\ rs_pc = "done"
    /\ rs_pc' = "idle"
    /\ rs_crash' = FALSE
    /\ rs_prefetched' = {}
    /\ rs_preds' = <<>>
    /\ rs_signals' = <<>>
    /\ rs_sentiment' = {}
    /\ rs_fetched' = {}
    /\ rs_tested' = {}
    /\ UNCHANGED otherThanSignals

NextSignals ==
    \/ RouteSignalsStart
    \/ RouteSignalsStep
    \/ RouteSignalsFinish
    \/ RouteSignalsReturn

-----------------------------------------------------------------------------
(* Macro-gated run: macro.py, allocation.py calculate_quantity and
   trading.py execute_trades *)

\* Longest universe of a run.
MaxRun == 2

\* settings.daily_budget, in dollars
daily_budget == 10000

\* settings.max_positions
max_positions == 10

\* settings.risk_per_trade_pct, in hundredths
risk_per_trade_pct == 2

\* settings.stop_loss_pct, in hundredths
stop_loss_pct == 2

\* Prices of get_price, in cents.
RunPrices == {0, 400, 25000, 200000}

\* settings.macro_spy_reduce_factor, macro_vix_reduce_factor and
\* macro_min_size_factor as configured, in hundredths (the defaults are 50, 50
\* and 20).
ReduceFactors == {50, 30}

MinFactors == {20, 30}

\* A size factor of 1.0, in ten-thousandths.
One == 100 * 100

\* MacroState
MacroState(size_factor, min_factor, reasons) ==
    [size_factor |-> size_factor, min_factor |-> min_factor, reasons |-> reasons]

NoMacro == MacroState(0, 0, <<>>)

\* Mutant of allow_trades: trades are always allowed.
allow_trades_always(state) == TRUE

\* MacroState.allow_trades
allow_trades(state) == state.size_factor >= state.min_factor

\* settings.macro_vix_threshold, in cents
macro_vix_threshold == 2500

\* What get_aggregates answers for the index: it raises, or returns bars (here
\* their closes, in cents).
IndexBars == {Raise, Ok(<<>>), Ok(<<40000>>), Ok(<<40000, 40000>>),
              Ok(<<40000, 39900>>), Ok(<<39900, 40000>>)}

\* What get_price answers for the volatility index, in cents.
VixPrices == {Raise, Ok(2000), Ok(2500), Ok(2501)}

\* macro.py 29-36: what the index check finds
spy_trend(bars) ==
    IF bars = Raise THEN "raise"
    ELSE IF Len(bars.val) >= 2
              /\ bars.val[Len(bars.val)] - bars.val[Len(bars.val) - 1] < 0
         THEN "down"
         ELSE "flat"

\* macro.py 40-45: what the volatility check finds
vix_level(vix_price) ==
    IF vix_price = Raise THEN "raise"
    ELSE IF vix_price.val > macro_vix_threshold THEN "high" ELSE "calm"

Market(bars, vix_price, spy_factor, vix_factor) ==
    [bars |-> bars, vix_price |-> vix_price,
     spy_factor |-> spy_factor, vix_factor |-> vix_factor]

NoMarket == Market(Raise, Raise, 100, 100)

\* Mutant of evaluate_macro_state: a check that could not fetch its data
\* reduces the size as well.
evaluate_macro_state_failsafe(spy, vix, spy_factor, vix_factor, min_factor) ==
    LET spy_fired == spy \in {"down", "raise"}
        vix_fired == vix \in {"high", "raise"}
        after_spy == IF spy_fired THEN (One * spy_factor) \div 100 ELSE One
        reasons_spy == IF spy_fired THEN <<"spy_trend_negative">> ELSE <<>>
        after_vix == IF vix_fired THEN (after_spy * vix_factor) \div 100 ELSE after_spy
        reasons_vix == IF vix_fired THEN Append(reasons_spy, "vix_elevated")
                       ELSE reasons_spy
    IN  MacroState(after_vix, min_factor * 100, reasons_vix)

\* macro.py evaluate_macro_state: spy is what the SPY bars say ("raise",
\* "flat", "down"), vix what the VIX price says ("raise", "calm", "high").
evaluate_macro_state(spy, vix, spy_factor, vix_factor, min_factor) ==
    LET after_spy == IF spy = "down" THEN (One * spy_factor) \div 100 ELSE One
        reasons_spy == IF spy = "down" THEN <<"spy_trend_negative">> ELSE <<>>
        after_vix == IF vix = "high" THEN (after_spy * vix_factor) \div 100 ELSE after_spy
        reasons_vix == IF vix = "high" THEN Append(reasons_spy, "vix_elevated")
                       ELSE reasons_spy
    IN  MacroState(after_vix, min_factor * 100, reasons_vix)

\* trading.py _compute_levels: the stop loss for a price, in cents.
StopLevel(price) == (price * (100 - stop_loss_pct)) \div 100

\* allocation.py calculate_quantity(price, stop_loss, use_risk_model=True)
calculate_quantity(price, stop_loss) ==
    IF price <= 0 THEN 0
    ELSE LET max_position_size == (daily_budget * 100) \div Max(max_positions, 1)
             base_qty == max_position_size \div price
             qty == Max(base_qty, 0)
             risk_per_trade == daily_budget * risk_per_trade_pct
             risk_per_share == price - stop_loss
             risk_qty == IF risk_per_share > 0
                         THEN risk_per_trade \div risk_per_share ELSE 0
         IN  IF stop_loss < price /\ risk_per_share > 0 /\ risk_qty > 0
             THEN IF qty > 0 THEN Min(qty, risk_qty) ELSE risk_qty
             ELSE qty

\* int(base_qty * macro_state.size_factor)
AdjustedQty(base_qty, size_factor) == (base_qty * size_factor) \div One

Summary(executed, skipped, macro) ==
    [executed |-> executed, skipped |-> skipped,
     macro |-> [size_factor |-> macro.size_factor, reasons |-> macro.reasons]]

NoSummary == Summary(<<>>, <<>>, NoMacro)

RunLocalsCleared ==
    /\ lg_macro = NoMacro
    /\ lg_market = NoMarket
    /\ lg_built = <<>>
    /\ lg_universe = <<>>
    /\ lg_executed = <<>>
    /\ lg_skipped = <<>>
    /\ lg_orders = {}
    /\ lg_summary = NoSummary

RunOff == lg_pc = "off" /\ RunLocalsCleared

RunInit == lg_pc = "idle" /\ RunLocalsCleared

\* execute_trades() up to the loop: the macro state is evaluated and the
\* universe built; when the macro state does not allow trades the summary is
\* made and returned at once.
RunStart ==
    /\ lg_pc = "idle"
    /\ \E bars \in IndexBars, vix_price \in VixPrices,
          spy_factor \in ReduceFactors, vix_factor \in ReduceFactors,
          min_factor \in MinFactors, n \in 0..Min(MaxRun, Len(UniverseNames)) :
        LET macro_state ==
                evaluate_macro_state(spy_trend(bars), vix_level(vix_price),
                                     spy_factor, vix_factor, min_factor)
        IN  /\ lg_macro' = macro_state
            /\ lg_market' = Market(bars, vix_price, spy_factor, vix_factor)
            /\ lg_built' = Prefix(UniverseNames, n)
            /\ lg_universe' = Prefix(UniverseNames, n)
            /\ IF ~allow_trades(macro_state)
               THEN /\ lg_summary' = Summary(<<>>, <<>>, macro_state)
                    /\ lg_pc' = "done"
               ELSE /\ lg_summary' = NoSummary
                    /\ lg_pc' = "loop"
    /\ UNCHANGED <<otherThanLegacy, lg_executed, lg_skipped, lg_orders>>

Skipped(symbol, reason) == [symbol |-> symbol, reason |-> reason]

\* One pass of the loop of execute_trades.
RunStep ==
    /\ lg_pc = "loop"
    /\ lg_universe # <<>>
    /\ lg_universe' = Tail(lg_universe)
    /\ LET symbol == Head(lg_universe)
       IN  \/ /\ lg_skipped' = Append(lg_skipped, Skipped(symbol, "price_unavailable"))
              /\ UNCHANGED <<lg_executed, lg_orders>>
           \/ \E price \in RunPrices :
                LET qty == AdjustedQty(calculate_quantity(price, StopLevel(price)),
                                       lg_macro.size_factor)
                IN  IF qty < 1
                    THEN /\ lg_skipped' =
                               Append(lg_skipped, Skipped(symbol, "quantity_below_one"))
                         /\ UNCHANGED <<lg_executed, lg_orders>>
                    ELSE \E answer \in {"ok", "raise"} :
                           /\ lg_orders' = lg_orders \cup {Order(symbol, qty, answer)}
                           /\ IF answer = "ok"
                              THEN /\ lg_executed' =
                                         Append(lg_executed,
                                                [symbol |-> symbol, qty |-> qty,
                                                 entry |-> price])
                                   /\ lg_skipped' = lg_skipped
                              ELSE /\ lg_skipped' =
                                         Append(lg_skipped, Skipped(symbol, "order_failed"))
                                   /\ lg_executed' = lg_executed
    /\ UNCHANGED <<otherThanLegacy, lg_pc, lg_macro, lg_market, lg_built, lg_summary>>

\* The loop is over: the summary is made and returned.
RunFinish ==
    /\ lg_pc = "loop"
    /\ lg_universe = <<>>
    /\ lg_summary' = Summary(lg_executed, lg_skipped, lg_macro)
    /\ lg_pc' = "done"
    /\ UNCHANGED <<otherThanLegacy, lg_macro, lg_market, lg_built, lg_universe, lg_executed,
                   lg_skipped, lg_orders>>

\* The caller has the summary; the next run can start.
RunReturn ==
    /\ lg_pc = "done"
    /\ lg_pc' = "idle"
    /\ lg_macro' = NoMacro
    /\ lg_market' = NoMarket
    /\ lg_built' = <<>>
    /\ lg_universe' = <<>>
    /\ lg_executed' = <<>>
    /\ lg_skipped' = <<>>
    /\ lg_orders' = {}
    /\ lg_summary' = NoSummary
    /\ UNCHANGED otherThanLegacy

NextRun ==
    \/ RunStart
    \/ RunStep
    \/ RunFinish
    \/ RunReturn

-----------------------------------------------------------------------------
(* maybe_trade: services/trading.py, called from several threads *)

\* Calls of maybe_trade in one run.
MaxTradeCalls == 2

Threads == {"t1", "t2"}

\* DAILY_BUDGET and TRADING_BUDGET as configured (DAILY_BUDGET_USD,
\* TRADING_BUDGET), in dollars.
DAILY_BUDGET == 1000

TRADING_BUDGET == 500

\* In hundredths.
ALLOCATION_RATIO == 10

MAX_UTILIZATION == 80

\* In thousandths.
MIN_CONFIDENCE == 20

MAX_CONFIDENCE == 150

DEFAULT_CONFIDENCE == 80

MAX_LOG_LENGTH == 100

\* confidence, in thousandths, None when the caller gives none, or a value
\* float() raises on.
Confidences == {ReturnNone, Raise, Ok(10), Ok(500)}

\* get_account_cash(alpaca), in dollars, or the call raises.
CashAnswers == {Raise, Ok(5), Ok(5000)}

\* _get_latest_price(symbol), in dollars, or None.
QuoteAnswers == {ReturnNone, Ok(0), Ok(5), Ok(40)}

\* _calculate_allocation_from_confidence: the planned allocation, in dollars.
allocation_unclamped(confidence) ==
    LET value == IF confidence \in {ReturnNone, Raise} THEN DEFAULT_CONFIDENCE
                 ELSE confidence.val
    IN  (value * DAILY_BUDGET) \div 1000

_calculate_allocation_from_confidence(confidence) ==
    LET value == IF confidence \in {ReturnNone, Raise} THEN DEFAULT_CONFIDENCE
                 ELSE confidence.val
        capped == Max(MIN_CONFIDENCE, Min(MAX_CONFIDENCE, value))
    IN  (capped * DAILY_BUDGET) \div 1000

\* max(DAILY_BUDGET - budget_used, 0) for today's state.
remaining_whatever_used(state) == DAILY_BUDGET

RemainingDaily(state) == Max(DAILY_BUDGET - state.budget_used, 0)

\* min(planned_allocation, TRADING_BUDGET * ALLOCATION_RATIO, remaining_daily)
Allocation(planned_allocation, remaining_daily) ==
    Min(planned_allocation,
        Min((TRADING_BUDGET * ALLOCATION_RATIO) \div 100, remaining_daily))

max_capital == (MAX_UTILIZATION * TRADING_BUDGET) \div 100

\* The locals of a call that got as far as a quantity.
Call(symbol, confidence, remaining_daily, allocation, entry_price, qty) ==
    [symbol |-> symbol, confidence |-> confidence,
     remaining_daily |-> remaining_daily,
     allocation |-> allocation, entry_price |-> entry_price, qty |-> qty,
     position_cost |-> qty * entry_price]

NoCall == Call("None", ReturnNone, 0, 0, 0, 0)

\* Mutant of Logged: nothing is written to the trade log.
logged_nothing(log, symbol, status, reason) == log

\* _record_action: the log with the entry appended, cut to its last
\* MAX_LOG_LENGTH entries.
Logged(log, symbol, status, reason) ==
    LET longer == Append(log, [symbol |-> symbol, status |-> status, reason |-> reason])
    IN  IF Len(longer) > MAX_LOG_LENGTH
        THEN SubSeq(longer, Len(longer) - MAX_LOG_LENGTH + 1, Len(longer))
        ELSE longer

\* The positions a ledger with budget_used b holds: none, or the one trade
\* that cost b.
EarlierTrades(b) ==
    IF b = 0 THEN <<>> ELSE <<[symbol |-> "CCC", qty |-> 1, price |-> b]>>

\* State files a run of maybe_trade may find: none, today's ledger with some
\* budget used, and yesterday's.
TradeFiles ==
    {Text(Bare("missing"), 0)}
        \cup {Text(Doc("object", ServicesKeys, d, 0, 0, b, EarlierTrades(b), FALSE, 0), 2) :
                 d \in {1, 2}, b \in {0, DAILY_BUDGET - 10, DAILY_BUDGET}}

TradeOff ==
    /\ STATE_LOCK = "free"
    /\ ALLOCATED_CAPITAL = 0
    /\ TRADE_LOG = <<>>
    /\ mt_client = FALSE
    /\ mt_calls = 0
    /\ mt_pc = [t \in Threads |-> "off"]
    /\ mt_call = [t \in Threads |-> NoCall]
    /\ mt_result = [t \in Threads |-> "none"]
    /\ mt_orders = {}
    /\ mt_answer = [t \in Threads |-> "none"]
    /\ mt_returned = 0

\* The process is up: ALLOCATED_CAPITAL is 0, or what the trades since the
\* start of the process have added up to, here $30 short of max_capital.
TradeInit ==
    /\ STATE_LOCK = "free"
    /\ ALLOCATED_CAPITAL \in {0, max_capital - 30}
    /\ TRADE_LOG = <<>>
    /\ mt_client \in BOOLEAN
    /\ mt_calls = 0
    /\ mt_pc \in {[t \in Threads |-> IF t \in S THEN "idle" ELSE "off"] :
                    S \in (SUBSET Threads) \ {{}}}
    /\ mt_call = [t \in Threads |-> NoCall]
    /\ mt_result = [t \in Threads |-> "none"]
    /\ mt_orders = {}
    /\ mt_answer = [t \in Threads |-> "none"]
    /\ mt_returned = 0
    /\ pf_impl = "services"
    /\ pf_today = 1
    /\ pf_file \in TradeFiles
    /\ LedgerCleared

\* The call of thread t returns result (or raises), after logging the action
\* when status is not "none".
TradeReturns(t, symbol, result, status, reason) ==
    /\ mt_pc' = [mt_pc EXCEPT ![t] = "idle"]
    /\ mt_call' = [mt_call EXCEPT ![t] = NoCall]
    /\ mt_result' = [mt_result EXCEPT ![t] = result]
    /\ mt_returned' = IF result \in {"True", "False"} THEN mt_returned + 1
                      ELSE mt_returned
    /\ TRADE_LOG' = IF status = "none" THEN TRADE_LOG
                    ELSE Logged(TRADE_LOG, symbol, status, reason)

\* maybe_trade(symbol, confidence) up to the quantity: the remaining daily
\* budget is read under the lock, the allocation sized, cash and price
\* fetched. The call returns early, or goes on with a quantity in hand.
MaybeTradeBegin(t) ==
    /\ mt_pc[t] = "idle"
    /\ mt_calls < MaxTradeCalls
    /\ STATE_LOCK = "free"
    /\ mt_calls' = mt_calls + 1
    /\ \E symbol \in ExecSymbols, confidence \in Confidences, io \in IoAnswers,
          cash \in CashAnswers, quote \in QuoteAnswers :
        LET l == _ensure_today_portfolio_state_unlocked(Parsed(pf_file), pf_today, io)
            remaining_daily == RemainingDaily(l.state)
            allocation ==
                Allocation(_calculate_allocation_from_confidence(confidence),
                           remaining_daily)
            entry_price == quote.val
            qty == allocation \div entry_price
        IN  /\ pf_file' = IF l.file # Parsed(pf_file) THEN Dumped(l.file) ELSE pf_file
            /\ IF l.outcome = "raise"
               THEN TradeReturns(t, symbol, "raise", "none", "")
               ELSE IF remaining_daily <= 0
               THEN TradeReturns(t, symbol, "False", "skipped", "Daily budget exhausted")
               ELSE IF allocation <= 0
               THEN TradeReturns(t, symbol, "False", "skipped", "Allocation is zero")
               ELSE IF ~mt_client
               THEN TradeReturns(t, symbol, "False", "skipped", "Alpaca credentials missing")
               ELSE IF cash = Raise
               THEN TradeReturns(t, symbol, "False", "skipped", "Alpaca cash lookup failed")
               ELSE IF cash.val < allocation
               THEN TradeReturns(t, symbol, "True", "skipped", "Insufficient cash")
               ELSE IF quote = ReturnNone
               THEN TradeReturns(t, symbol, "True", "skipped", "No price data")
               ELSE IF entry_price = 0
               THEN TradeReturns(t, symbol, "raise", "none", "")  \* ZeroDivisionError
               ELSE IF qty <= 0
               THEN TradeReturns(t, symbol, "True", "skipped", "Price exceeds allocation")
               ELSE /\ mt_pc' = [mt_pc EXCEPT ![t] = "gate"]
                    /\ mt_call' = [mt_call EXCEPT ![t] =
                          Call(symbol, confidence, remaining_daily, allocation, entry_price,
                               qty)]
                    /\ mt_result' = [mt_result EXCEPT ![t] = "none"]
                    /\ mt_returned' = mt_returned
                    /\ TRADE_LOG' = TRADE_LOG
    /\ UNCHANGED <<otherThanTrade, STATE_LOCK, ALLOCATED_CAPITAL, mt_client, mt_orders, mt_answer>>

\* with STATE_LOCK: the utilisation test. When it fails, _record_action asks
\* for the lock this thread already holds, and the thread never gets on.
MaybeTradeGate(t) ==
    /\ mt_pc[t] = "gate"
    /\ STATE_LOCK = "free"
    /\ IF ALLOCATED_CAPITAL + mt_call[t].position_cost > max_capital
       THEN /\ STATE_LOCK' = t
            /\ mt_pc' = [mt_pc EXCEPT ![t] = "stuck"]
       ELSE /\ STATE_LOCK' = STATE_LOCK
            /\ mt_pc' = [mt_pc EXCEPT ![t] = "submit"]
    /\ UNCHANGED <<otherThanTrade, mt_returned, pf_file, ALLOCATED_CAPITAL, TRADE_LOG, mt_client,
                   mt_calls, mt_call, mt_result, mt_orders, mt_answer>>

charged_regardless(answer) == "increment"

\* The try block of maybe_trade: after an accepted submit_order the call goes
\* on to _increment_allocation, an exception takes it to the except branch.
after_submit_order(answer) == IF answer = "ok" THEN "increment" ELSE "failed"

\* alpaca.submit_order(...): accepted, or the call raises.
MaybeTradeSubmit(t) ==
    /\ mt_pc[t] = "submit"
    /\ \E answer \in {"ok", "raise"} :
        /\ mt_orders' = mt_orders \cup {Order(mt_call[t].symbol, mt_call[t].qty, answer)}
        /\ mt_answer' = [mt_answer EXCEPT ![t] = answer]
        /\ mt_pc' = [mt_pc EXCEPT ![t] = after_submit_order(answer)]
    /\ UNCHANGED <<otherThanTrade, mt_returned, pf_file, STATE_LOCK, ALLOCATED_CAPITAL, TRADE_LOG,
                   mt_client, mt_calls, mt_call, mt_result>>

\* _increment_allocation(position_cost)
MaybeTradeIncrement(t) ==
    /\ mt_pc[t] = "increment"
    /\ STATE_LOCK = "free"
    /\ ALLOCATED_CAPITAL' = ALLOCATED_CAPITAL + mt_call[t].position_cost
    /\ mt_pc' = [mt_pc EXCEPT ![t] = "record"]
    /\ UNCHANGED <<otherThanTrade, mt_returned, pf_file, STATE_LOCK, TRADE_LOG, mt_client, mt_calls,
                   mt_call, mt_result, mt_orders, mt_answer>>

\* _record_portfolio_trade(symbol, qty, entry_price, ...): today's state is
\* loaded, charged, extended and saved under the lock; an exception lands in
\* the except branch of maybe_trade.
MaybeTradeRecord(t) ==
    /\ mt_pc[t] = "record"
    /\ STATE_LOCK = "free"
    /\ \E io1 \in IoAnswers, io2 \in IoAnswers :
        LET l == _ensure_today_portfolio_state_unlocked(Parsed(pf_file), pf_today, io1)
            trade == [symbol |-> mt_call[t].symbol, qty |-> mt_call[t].qty,
                      price |-> mt_call[t].entry_price]
            state == WithTrade(WithCost(l.state, mt_call[t].position_cost), trade)
            kept == IF l.file # Parsed(pf_file) THEN Dumped(l.file) ELSE pf_file
        IN  IF l.outcome = "raise"
            THEN /\ pf_file' = pf_file
                 /\ mt_pc' = [mt_pc EXCEPT ![t] = "failed"]
            ELSE /\ pf_file' = IF io2 = "ok" THEN Dumped(state) ELSE kept
                 /\ mt_pc' = [mt_pc EXCEPT ![t] = "placed"]
    /\ UNCHANGED <<otherThanTrade, mt_returned, STATE_LOCK, ALLOCATED_CAPITAL, TRADE_LOG, mt_client,
                   mt_calls, mt_call, mt_result, mt_orders, mt_answer>>

\* _record_action(symbol, "submitted", ...) and return True
MaybeTradePlaced(t) ==
    /\ mt_pc[t] = "placed"
    /\ STATE_LOCK = "free"
    /\ TradeReturns(t, mt_call[t].symbol, "True", "submitted", "bracket order placed")
    /\ UNCHANGED <<otherThanTrade, pf_file, STATE_LOCK, ALLOCATED_CAPITAL, mt_client,
                   mt_calls, mt_orders, mt_answer>>

\* except Exception: _record_action(symbol, "skipped", "order failed: ...")
\* and return False
MaybeTradeFailed(t) ==
    /\ mt_pc[t] = "failed"
    /\ STATE_LOCK = "free"
    /\ TradeReturns(t, mt_call[t].symbol, "False", "skipped", "order failed")
    /\ UNCHANGED <<otherThanTrade, pf_file, STATE_LOCK, ALLOCATED_CAPITAL, mt_client,
                   mt_calls, mt_orders, mt_answer>>

NextTrade ==
    \E t \in Threads :
        \/ MaybeTradeBegin(t)
        \/ MaybeTradeGate(t)
        \/ MaybeTradeSubmit(t)
        \/ MaybeTradeIncrement(t)
        \/ MaybeTradeRecord(t)
        \/ MaybeTradePlaced(t)
        \/ MaybeTradeFailed(t)

-----------------------------------------------------------------------------
(* Scheduler: core/scheduler.py.  Scheduler.start gathers one _run          *)
(* coroutine per registered job; the coroutines interleave at their awaits. *)

JobNames == {"cycle", "report"}

\* Steps an invocation of job.factory() takes before it returns, at most.
MaxWork == 2

\* interval_seconds of a registered job, and what time.time() - start can be.
interval_seconds == 2

ElapsedTimes == {0, interval_seconds, interval_seconds + 1}

\* The exceptions an invocation raises, all of them subclasses of Exception.
Exceptions == {"RuntimeError", "ConnectionError", "TypeError"}

\* except Exception: the clause takes every subclass of Exception.
except_nothing(exc) == FALSE

except_Exception(exc) == exc \in Exceptions

\* await job.factory(): _run goes on only when the invocation has ended.
create_task(pcs, job) == [pcs EXCEPT ![job] = "after"]

await_factory(pcs, job) == [pcs EXCEPT ![job] = "awaiting"]

SchedOff ==
    /\ sc_state = "off"
    /\ sc_jobs = {}
    /\ sc_pc = [j \in JobNames |-> "off"]
    /\ sc_running = [j \in JobNames |-> 0]
    /\ sc_work = [j \in JobNames |-> 0]
    /\ sc_wait = [j \in JobNames |-> 0]
    /\ sc_last = [j \in JobNames |-> "none"]

\* The scheduler after its register calls, before start.
SchedInit ==
    /\ sc_state = "registered"
    /\ sc_jobs \in SUBSET JobNames
    /\ sc_pc = [j \in JobNames |-> "off"]
    /\ sc_running = [j \in JobNames |-> 0]
    /\ sc_work = [j \in JobNames |-> 0]
    /\ sc_wait = [j \in JobNames |-> 0]
    /\ sc_last = [j \in JobNames |-> "none"]

\* start: returns at once when no job is registered, else gathers the loops.
SchedulerStart ==
    /\ sc_state = "registered"
    /\ IF sc_jobs = {}
       THEN /\ sc_state' = "returned"
            /\ UNCHANGED sc_pc
       ELSE /\ sc_state' = "gathering"
            /\ sc_pc' = [j \in JobNames |-> IF j \in sc_jobs THEN "top" ELSE "off"]
    /\ UNCHANGED <<sc_jobs, sc_running, sc_work, sc_wait, sc_last>>
    /\ UNCHANGED otherThanSched

\* _run, top of the loop: start = time.time(); await job.factory().
JobInvoke(job) ==
    /\ sc_pc[job] = "top"
    /\ sc_pc' = await_factory(sc_pc, job)
    /\ sc_running' = [sc_running EXCEPT ![job] = @ + 1]
    /\ \E steps \in 0..MaxWork : sc_work' = [sc_work EXCEPT ![job] = steps]
    /\ UNCHANGED <<sc_state, sc_jobs, sc_wait, sc_last>>
    /\ UNCHANGED otherThanSched

\* The invocation makes a step of its own.
FactoryWorks(job) ==
    /\ sc_running[job] > 0
    /\ sc_work[job] > 0
    /\ sc_work' = [sc_work EXCEPT ![job] = @ - 1]
    /\ UNCHANGED <<sc_state, sc_jobs, sc_pc, sc_running, sc_wait, sc_last>>
    /\ UNCHANGED otherThanSched

\* The invocation returns: the await in _run, when there is one, completes.
FactoryReturns(job) ==
    /\ sc_running[job] > 0
    /\ sc_work[job] = 0
    /\ sc_running' = [sc_running EXCEPT ![job] = @ - 1]
    /\ IF sc_pc[job] = "awaiting"
       THEN /\ sc_pc' = [sc_pc EXCEPT ![job] = "after"]
            /\ sc_last' = [sc_last EXCEPT ![job] = "returned"]
       ELSE UNCHANGED <<sc_pc, sc_last>>
    /\ UNCHANGED <<sc_state, sc_jobs, sc_work, sc_wait>>
    /\ UNCHANGED otherThanSched

\* The invocation raises at any of its steps: the except clause of _run
\* takes the exception, or it leaves _run and the loop is over.
FactoryRaises(job) ==
    /\ sc_running[job] > 0
    /\ sc_running' = [sc_running EXCEPT ![job] = @ - 1]
    /\ sc_work' = [sc_work EXCEPT ![job] = 0]
    /\ \E exc \in Exceptions :
         IF sc_pc[job] = "awaiting"
         THEN /\ sc_pc' = [sc_pc EXCEPT ![job] =
                               IF except_Exception(exc) THEN "caught" ELSE "dead"]
              /\ sc_last' = [sc_last EXCEPT ![job] = "raised"]
         ELSE UNCHANGED <<sc_pc, sc_last>>
    /\ UNCHANGED <<sc_state, sc_jobs, sc_wait>>
    /\ UNCHANGED otherThanSched

\* logger.exception("Job %s failed: %s", ...)
JobLogsFailure(job) ==
    /\ sc_pc[job] = "caught"
    /\ sc_pc' = [sc_pc EXCEPT ![job] = "after"]
    /\ sc_last' = [sc_last EXCEPT ![job] = "logged"]
    /\ UNCHANGED <<sc_state, sc_jobs, sc_running, sc_work, sc_wait>>
    /\ UNCHANGED otherThanSched

\* wait_for = max(job.interval_seconds - elapsed, 0); await asyncio.sleep(wait_for)
JobSleeps(job) ==
    /\ sc_pc[job] = "after"
    /\ \E elapsed \in ElapsedTimes :
         sc_wait' = [sc_wait EXCEPT ![job] = Max(interval_seconds - elapsed, 0)]
    /\ sc_pc' = [sc_pc EXCEPT ![job] = "sleeping"]
    /\ UNCHANGED <<sc_state, sc_jobs, sc_running, sc_work, sc_last>>
    /\ UNCHANGED otherThanSched

\* The sleep is over: back to the top of the loop.
JobWakes(job) ==
    /\ sc_pc[job] = "sleeping"
    /\ sc_pc' = [sc_pc EXCEPT ![job] = "top"]
    /\ sc_wait' = [sc_wait EXCEPT ![job] = 0]
    /\ UNCHANGED <<sc_state, sc_jobs, sc_running, sc_work, sc_last>>
    /\ UNCHANGED otherThanSched

JobStep(job) ==
    \/ JobInvoke(job)
    \/ FactoryWorks(job)
    \/ FactoryReturns(job)
    \/ FactoryRaises(job)
    \/ JobLogsFailure(job)
    \/ JobSleeps(job)
    \/ JobWakes(job)

NextSched ==
    \/ SchedulerStart
    \/ \E job \in JobNames : JobStep(job)

-----------------------------------------------------------------------------
(* Trading cycle: main.py microcap_cycle, with risk_model.can_open_position *)
(* and order_executor.list_positions.                                       *)

\* Entries of the allocations of one iteration, at most.
MaxAllocations == 4

\* Positions open at the brokerage, at most.
MaxHeld == 6

\* trader/risk_model.py: DAILY_BUDGET and MAX_POSITIONS, at their defaults.
RISK_DAILY_BUDGET == 10000

MAX_POSITIONS == 5

\* shares * price of an entry, in dollars.
Notionals == {500, 3000, 4000}

PriceAnswers == {Raise} \cup {Ok(n) : n \in Notionals}

\* allocation_amount <= max_pos_size, where max_pos_size is
\* DAILY_BUDGET * 0.80 / max_positions in crash mode and MAX_POSITION_SIZE
\* (DAILY_BUDGET / 3) otherwise.
WithinPositionSize(allocation_amount, crash_mode) ==
    IF crash_mode
    THEN allocation_amount * 3 * 100 <= RISK_DAILY_BUDGET * 80
    ELSE allocation_amount * 3 <= RISK_DAILY_BUDGET

can_open_position(current_positions, allocation_amount, crash_mode) ==
    LET max_open == IF crash_mode THEN 3 ELSE MAX_POSITIONS
    IN  /\ current_positions < max_open
        /\ WithinPositionSize(allocation_amount, crash_mode)

\* list_positions: the positions, or [] when the brokerage call failed.
list_positions(held, answer) == IF answer = "ok" THEN held ELSE 0

\* data/price_router.py PriceRouter.get_aggregates(self, symbol, timespan,
\* limit): a call with any other keyword raises TypeError before a provider
\* is asked.
accepts_keywords(keywords) == keywords \subseteq {"symbol", "timespan", "limit"}

\* The closes of the index bars the providers hold, oldest first, in cents;
\* Raise when every provider fails or has none.
CrashBars == {Raise, Ok(<<50000>>), Ok(<<50000, 49901>>), Ok(<<50000, 49900>>),
              Ok(<<50000, 50000, 49000>>), Ok(<<0, 100>>)}

NoBars == Ok(<<>>)

\* strategy/crash_detector.py is_crash_mode, the crash flag of the pair it
\* returns; bars is what the providers hold. The router is called with
\* window=10.
is_crash_mode(bars) ==
    IF ~accepts_keywords({"symbol", "window"}) THEN FALSE   \* except Exception
    ELSE IF bars = Raise THEN FALSE                        \* except Exception
    ELSE IF Len(bars.val) < 2 THEN FALSE
    ELSE LET close_prev == bars.val[Len(bars.val) - 1]
             close_last == bars.val[Len(bars.val)]
         IN  IF close_prev = 0 THEN FALSE
             ELSE 1000 * (close_last - close_prev) <= (0 - 2) * close_prev

CycleLocalsCleared ==
    /\ cy_crash = FALSE
    /\ cy_index = NoBars
    /\ cy_open_count = 0
    /\ cy_left = 0
    /\ cy_filtered = 0
    /\ cy_passed = 0
    /\ cy_orders = {}

CycleOff ==
    /\ cy_pc = "off"
    /\ cy_running = 0
    /\ cy_held = 0
    /\ cy_last = "none"
    /\ CycleLocalsCleared

CycleInit ==
    /\ cy_pc = "top"
    /\ cy_running = 0
    /\ cy_held \in 0..MAX_POSITIONS
    /\ cy_last = "none"
    /\ CycleLocalsCleared

\* The steps inside the try block.
TrySteps == {"market", "crash", "universe", "signals", "allocate", "positions",
             "filter", "execute", "exits"}

\* while True: start = time.time(); try:
CycleBegin ==
    /\ cy_pc = "top"
    /\ cy_pc' = "market"
    /\ cy_running' = cy_running + 1
    /\ UNCHANGED <<cy_crash, cy_index, cy_held, cy_open_count, cy_left, cy_filtered,
                   cy_passed, cy_last, cy_orders>>
    /\ UNCHANGED otherThanCycle

\* continue: the finally clause runs before the next iteration.
CycleSkips ==
    /\ cy_pc' = "finally"
    /\ cy_last' = "skipped"
    /\ UNCHANGED <<cy_running, cy_crash, cy_index, cy_held, cy_open_count, cy_left,
                   cy_filtered, cy_passed, cy_orders>>

CycleGoes(pc) ==
    /\ cy_pc' = pc
    /\ UNCHANGED <<cy_running, cy_crash, cy_index, cy_held, cy_open_count, cy_left,
                   cy_filtered, cy_passed, cy_last, cy_orders>>

\* if not market_open_now(): continue
CycleMarket ==
    /\ cy_pc = "market"
    /\ \E open \in BOOLEAN : IF open THEN CycleGoes("crash") ELSE CycleSkips
    /\ UNCHANGED otherThanCycle

\* crash, drop = is_crash_mode()
CycleCrash ==
    /\ cy_pc = "crash"
    /\ cy_pc' = "universe"
    /\ \E bars \in CrashBars :
          /\ cy_index' = bars
          /\ cy_crash' = is_crash_mode(bars)
    /\ UNCHANGED <<cy_running, cy_held, cy_open_count, cy_left, cy_filtered,
                   cy_passed, cy_last, cy_orders>>
    /\ UNCHANGED otherThanCycle

\* universe = get_universe(); if not universe: continue
CycleUniverse ==
    /\ cy_pc = "universe"
    /\ \E empty \in BOOLEAN : IF empty THEN CycleSkips ELSE CycleGoes("signals")
    /\ UNCHANGED otherThanCycle

\* signals = route_signals(...); if not signals: continue
CycleSignals ==
    /\ cy_pc = "signals"
    /\ \E empty \in BOOLEAN : IF empty THEN CycleSkips ELSE CycleGoes("allocate")
    /\ UNCHANGED otherThanCycle

\* allocations = allocate_positions(signals, crash_mode=crash)
CycleAllocate ==
    /\ cy_pc = "allocate"
    /\ cy_pc' = "positions"
    /\ cy_left' \in 0..MaxAllocations
    /\ UNCHANGED <<cy_running, cy_crash, cy_index, cy_held, cy_open_count, cy_filtered,
                   cy_passed, cy_last, cy_orders>>
    /\ UNCHANGED otherThanCycle

\* filtered_allocations = {}; open_count = len(list_positions())
CycleListPositions ==
    /\ cy_pc = "positions"
    /\ cy_pc' = "filter"
    /\ \E answer \in {"ok", "fail"} :
         cy_open_count' = list_positions(cy_held, answer)
    /\ cy_filtered' = 0
    /\ UNCHANGED <<cy_running, cy_crash, cy_index, cy_held, cy_left, cy_passed, cy_last, cy_orders>>
    /\ UNCHANGED otherThanCycle

\* One iteration of the loop over allocations.items().
CycleFilter ==
    /\ cy_pc = "filter"
    /\ cy_left > 0
    /\ cy_left' = cy_left - 1
    /\ \E price \in PriceAnswers :
         cy_filtered' =
             IF /\ price # Raise
                /\ can_open_position(cy_open_count + cy_filtered, price.val,
                                     cy_crash)
             THEN cy_filtered + 1
             ELSE cy_filtered
    /\ UNCHANGED <<cy_pc, cy_running, cy_crash, cy_index, cy_held, cy_open_count,
                   cy_passed, cy_last, cy_orders>>
    /\ UNCHANGED otherThanCycle

\* The loop is over: filtered_allocations goes to execute_trades.
CycleHandsOver ==
    /\ cy_pc = "filter"
    /\ cy_left = 0
    /\ cy_pc' = "execute"
    /\ cy_passed' = cy_filtered
    /\ UNCHANGED <<cy_running, cy_crash, cy_index, cy_held, cy_open_count, cy_left,
                   cy_filtered, cy_last, cy_orders>>
    /\ UNCHANGED otherThanCycle

\* execute_trades(filtered_allocations, ...): each entry is opened or not;
\* an order is built at the price get_price answers then (order_executor.py
\* 53-58), so its notional is any of Notionals.
CycleExecute ==
    /\ cy_pc = "execute"
    /\ cy_pc' = "exits"
    /\ \E opened \in 0..cy_passed, orders \in SUBSET Notionals :
         /\ cy_held + opened <= MaxHeld
         /\ (opened = 0) <=> (orders = {})
         /\ Cardinality(orders) <= opened
         /\ cy_held' = cy_held + opened
         /\ cy_orders' = orders
    /\ UNCHANGED <<cy_running, cy_crash, cy_index, cy_open_count, cy_left, cy_filtered,
                   cy_passed, cy_last>>
    /\ UNCHANGED otherThanCycle

\* for pos in list_positions(): ... close_position(pos.symbol); then the
\* "Cycle Complete" line.
CycleExits ==
    /\ cy_pc = "exits"
    /\ cy_pc' = "finally"
    /\ \E closed \in 0..cy_held : cy_held' = cy_held - closed
    /\ cy_last' = "complete"
    /\ UNCHANGED <<cy_running, cy_crash, cy_index, cy_open_count, cy_left, cy_filtered,
                   cy_passed, cy_orders>>
    /\ UNCHANGED otherThanCycle

\* Any step of the try block raises.
CycleRaises ==
    /\ cy_pc \in TrySteps
    /\ cy_pc' = "except"
    /\ cy_last' = "raised"
    /\ UNCHANGED <<cy_running, cy_crash, cy_index, cy_held, cy_open_count, cy_left,
                   cy_filtered, cy_passed, cy_orders>>
    /\ UNCHANGED otherThanCycle

\* except Exception as exc: logger.exception("Cycle failed: %s", exc)
CycleLogsFailure ==
    /\ cy_pc = "except"
    /\ cy_pc' = "finally"
    /\ cy_last' = "logged"
    /\ UNCHANGED <<cy_running, cy_crash, cy_index, cy_held, cy_open_count, cy_left,
                   cy_filtered, cy_passed, cy_orders>>
    /\ UNCHANGED otherThanCycle

\* finally: time.sleep(max(300 - elapsed, 0)); the iteration is over.
CycleSleeps ==
    /\ cy_pc = "finally"
    /\ cy_pc' = "top"
    /\ cy_running' = cy_running - 1
    /\ cy_crash' = FALSE
    /\ cy_index' = NoBars
    /\ cy_open_count' = 0
    /\ cy_left' = 0
    /\ cy_filtered' = 0
    /\ cy_passed' = 0
    /\ cy_orders' = {}
    /\ UNCHANGED <<cy_held, cy_last>>
    /\ UNCHANGED otherThanCycle

NextCycle ==
    \/ CycleBegin
    \/ CycleMarket
    \/ CycleCrash
    \/ CycleUniverse
    \/ CycleSignals
    \/ CycleAllocate
    \/ CycleListPositions
    \/ CycleFilter
    \/ CycleHandsOver
    \/ CycleExecute
    \/ CycleExits
    \/ CycleRaises
    \/ CycleLogsFailure
    \/ CycleSleeps

-----------------------------------------------------------------------------
(* Exit check and close: main.py microcap_cycle (exit loop) and             *)
(* trader/order_executor.py close_position                                  *)

\* Calls of close_position and passes of the exit check, at most.
MaxCloses == 2

CloseSymbols == {"AAA", "BBB"}

\* A position at the brokerage: pos.qty and pos.held_for_orders as they
\* parse (held_for_orders may be missing or None), the minutes it has been
\* held, and pos.current_price in cents as it parses; avg_entry_price is
\* $10.00.
Holding(qty, held, minutes, current) ==
    [kind |-> "position", qty |-> qty, held |-> held, minutes |-> minutes,
     current |-> current]

NoHolding == [kind |-> "none", qty |-> Ok(0), held |-> Ok(0), minutes |-> 0,
              current |-> Ok(0)]

Holdings ==
    {Holding(q, h, m, c) :
        q \in {Ok(2), Ok(0 - 2), Raise},
        h \in {ReturnNone, Ok(1), Ok(2), Raise},
        m \in {30, 120},
        c \in {Ok(1000), Ok(1100), Raise}}

\* float(getattr(pos, "held_for_orders", 0) or 0)
held_for_orders(pos) == IF pos.held = ReturnNone THEN Ok(0) ELSE pos.held

\* not (qty <= 0 or held >= qty)
close_whatever_held(qty, held) == TRUE

HasFreeQuantity(qty, held) == ~(qty <= 0 \/ held >= qty)

\* position_payload of the exit loop: symbol, current_price, entry_price
\* and open_date, and no entry_timestamp.
position_payload(symbol, pos) ==
    [is_dict |-> TRUE, current_price |-> pos.current.val, entry_price |-> 1000,
     symbol |-> symbol, entry_timestamp |-> [kind |-> "absent", elapsed |-> 0]]

Checked(symbol, minutes, crash, result, passed) ==
    [symbol |-> symbol, minutes |-> minutes, crash |-> crash, result |-> result,
     passed |-> passed]

NotChecked == Checked("None", 0, FALSE, "None", FALSE)

CloseLocalsCleared ==
    /\ cp_symbol = "None"
    /\ cp_seen = NoHolding
    /\ cp_outcome = "none"

CloseOff ==
    /\ cp_pc = "off"
    /\ cp_client = FALSE
    /\ cp_calls = 0
    /\ cp_book = NoHolding
    /\ cp_checked = NotChecked
    /\ cp_requests = {}
    /\ CloseLocalsCleared

\* The brokerage holds a position in AAA, or none; it never holds BBB.
CloseInit ==
    /\ cp_pc = "idle"
    /\ cp_client \in BOOLEAN
    /\ cp_calls = 0
    /\ cp_book \in Holdings \cup {NoHolding}
    /\ cp_checked = NotChecked
    /\ cp_requests = {}
    /\ CloseLocalsCleared

\* The exit loop of microcap_cycle reaches the position in AAA: a price that
\* does not parse passes it over, else should_exit decides on the payload
\* and a true answer calls close_position.
ExitCheck ==
    /\ cp_pc = "idle"
    /\ cp_client
    /\ cp_calls < MaxCloses
    /\ cp_book # NoHolding
    /\ cp_calls' = cp_calls + 1
    /\ \E crash \in BOOLEAN, bars \in BarAnswers :
        IF cp_book.current = Raise
        THEN /\ cp_checked' = Checked("AAA", cp_book.minutes, crash, "skipped", FALSE)
             /\ UNCHANGED <<cp_pc, cp_symbol>>
        ELSE LET v == should_exit(position_payload("AAA", cp_book), crash, bars)
             IN  /\ cp_checked' = Checked("AAA", cp_book.minutes, crash, v.result,
                                          v.result = "True")
                 /\ IF v.result = "True"
                    THEN cp_pc' = "called" /\ cp_symbol' = "AAA"
                    ELSE UNCHANGED <<cp_pc, cp_symbol>>
    /\ UNCHANGED <<cp_client, cp_book, cp_requests, cp_seen, cp_outcome>>
    /\ UNCHANGED otherThanClose

\* close_position(symbol) is called by another caller.
ClosePositionCall ==
    /\ cp_pc = "idle"
    /\ cp_calls < MaxCloses
    /\ cp_calls' = cp_calls + 1
    /\ cp_pc' = "called"
    /\ cp_symbol' \in CloseSymbols
    /\ UNCHANGED <<cp_client, cp_book, cp_checked, cp_requests, cp_seen, cp_outcome>>
    /\ UNCHANGED otherThanClose

CloseEnds(outcome) == cp_pc' = "done" /\ cp_outcome' = outcome

\* close_position up to its decision: the positions are fetched, the
\* quantities parsed and compared.
ClosePositionDecide ==
    /\ cp_pc = "called"
    /\ \E answer \in {"ok", "raise"} :
        LET pos  == IF cp_symbol = "AAA" THEN cp_book ELSE NoHolding
            held == held_for_orders(pos)
        IN  /\ cp_seen' = IF cp_client /\ answer = "ok" THEN pos ELSE NoHolding
            /\ IF ~cp_client THEN CloseEnds("no client")
               ELSE IF answer = "raise" THEN CloseEnds("positions unavailable")
               ELSE IF pos = NoHolding THEN CloseEnds("no open position")
               ELSE IF pos.qty = Raise \/ held = Raise THEN CloseEnds("unparsable")
               ELSE IF ~HasFreeQuantity(pos.qty.val, held.val) THEN CloseEnds("no exit")
               ELSE cp_pc' = "submit" /\ cp_outcome' = cp_outcome
    /\ UNCHANGED <<cp_client, cp_calls, cp_book, cp_checked, cp_requests, cp_symbol>>
    /\ UNCHANGED otherThanClose

\* trading_client.close_position(symbol): accepted, refused with a benign
\* message, or failed otherwise.
ClosePositionSubmit ==
    /\ cp_pc = "submit"
    /\ cp_requests' = cp_requests \cup {[symbol |-> cp_symbol, seen |-> cp_seen]}
    /\ \E answer \in {"closed", "benign", "failed"} :
        /\ CloseEnds(answer)
        /\ cp_book' = IF answer = "closed" /\ cp_symbol = "AAA" THEN NoHolding
                      ELSE cp_book
    /\ UNCHANGED <<cp_client, cp_calls, cp_checked, cp_symbol, cp_seen>>
    /\ UNCHANGED otherThanClose

\* close_position returns.
ClosePositionReturn ==
    /\ cp_pc = "done"
    /\ cp_pc' = "idle"
    /\ cp_symbol' = "None"
    /\ cp_seen' = NoHolding
    /\ cp_outcome' = "none"
    /\ UNCHANGED <<cp_client, cp_calls, cp_book, cp_checked, cp_requests>>
    /\ UNCHANGED otherThanClose

\* The brokerage moves on its own: a pending order reserves or frees shares,
\* or a bracket leg closes the position.
BrokerMoves ==
    /\ cp_pc # "off"
    /\ cp_book # NoHolding
    /\ \/ cp_book' = NoHolding
       \/ \E h \in {Ok(1), Ok(2)} : cp_book' = [cp_book EXCEPT !.held = h]
    /\ cp_book' # cp_book
    /\ UNCHANGED <<cp_pc, cp_client, cp_calls, cp_checked, cp_requests, cp_symbol,
                   cp_seen, cp_outcome>>
    /\ UNCHANGED otherThanClose

NextClose ==
    \/ ExitCheck
    \/ ClosePositionCall
    \/ ClosePositionDecide
    \/ ClosePositionSubmit
    \/ ClosePositionReturn
    \/ BrokerMoves

-----------------------------------------------------------------------------
(* services/finnhub_client.py: the rate-limit cooldown per endpoint kind     *)

\* Calls of the Finnhub helpers, at most.
MaxFinnhubCalls == 3

\* Times the clock is read at a later second, at most.
MaxTicks == 2

FINNHUB_BACKOFF_SECONDS == 60

RATE_LIMIT_STATUSES == {403, 429}

\* get_quote, get_sentiment and get_company_news, by the key each uses in
\* _BACKOFF_UNTIL.
FinnhubKinds == {"quote", "sentiment", "news"}

\* get_market_snapshot awaits the helpers, and _log_universe_summary gathers
\* several snapshots: two calls can be in flight at once.
Coroutines == {1, 2}

\* What the endpoint answers: an HTTP status, or no answer at all.
FinnhubStatuses == {200, 403, 429, 500}

FinnhubAnswers == {"full", "empty", "error"}

NoFinnhubCall == [kind |-> "None", no |-> 0]

\* What each helper returns when it has nothing: None, {} and [].
EmptyValue(kind) ==
    CASE kind = "quote" -> "None"
      [] kind = "sentiment" -> "{}"
      [] kind = "news" -> "[]"

\* What each helper makes of a 200 payload: payload.get("c"),
\* payload.get("sentiment", {}) or {}, list(payload[:5]) for a list.
FinnhubValue(kind, answer) ==
    IF answer = "full" THEN
        CASE kind = "quote" -> "price"
          [] kind = "sentiment" -> "scores"
          [] kind = "news" -> "items"
    ELSE EmptyValue(kind)

never_backoff(kind) == FALSE

_should_backoff(kind) ==
    IF FINNHUB_BACKOFF_SECONDS <= 0 THEN FALSE
    ELSE fh_now < _BACKOFF_UNTIL[kind]

\* _start_backoff: the new expiry of the kind.
_start_backoff(kind) ==
    IF FINNHUB_BACKOFF_SECONDS <= 0 THEN _BACKOFF_UNTIL
    ELSE [_BACKOFF_UNTIL EXCEPT ![kind] = fh_now + FINNHUB_BACKOFF_SECONDS]

FinnhubOff ==
    /\ fh_now = 0
    /\ fh_ticks = 0
    /\ fh_api_key = FALSE
    /\ _BACKOFF_UNTIL = [kind \in FinnhubKinds |-> 0]
    /\ fh_pc = [t \in Coroutines |-> "off"]
    /\ fh_call = [t \in Coroutines |-> NoFinnhubCall]
    /\ fh_sent = [t \in Coroutines |-> FALSE]
    /\ fh_result = [t \in Coroutines |-> "none"]
    /\ fh_calls = 0
    /\ fh_limited = [kind \in FinnhubKinds |-> {}]

\* The module as imported: no cooldown, the clock at some second after 0.
FinnhubInit ==
    /\ fh_now = 1
    /\ fh_ticks = 0
    /\ fh_api_key \in BOOLEAN
    /\ _BACKOFF_UNTIL = [kind \in FinnhubKinds |-> 0]
    /\ fh_pc = [t \in Coroutines |-> "idle"]
    /\ fh_call = [t \in Coroutines |-> NoFinnhubCall]
    /\ fh_sent = [t \in Coroutines |-> FALSE]
    /\ fh_result = [t \in Coroutines |-> "none"]
    /\ fh_calls = 0
    /\ fh_limited = [kind \in FinnhubKinds |-> {}]

\* get_quote, get_sentiment, get_company_news up to the await of client.get:
\* the cooldown check returns the empty value, a missing key raises, else
\* the request goes out.
FinnhubCall(t, kind) ==
    /\ fh_pc[t] \in {"idle", "returned"}
    /\ fh_calls < MaxFinnhubCalls
    /\ fh_calls' = fh_calls + 1
    /\ fh_call' = [fh_call EXCEPT ![t] = [kind |-> kind, no |-> fh_calls + 1]]
    /\ IF _should_backoff(kind)
       THEN /\ fh_pc' = [fh_pc EXCEPT ![t] = "returned"]
            /\ fh_result' = [fh_result EXCEPT ![t] = EmptyValue(kind)]
            /\ fh_sent' = [fh_sent EXCEPT ![t] = FALSE]
       ELSE IF ~fh_api_key
       THEN /\ fh_pc' = [fh_pc EXCEPT ![t] = "returned"]
            /\ fh_result' = [fh_result EXCEPT ![t] = "raise"]
            /\ fh_sent' = [fh_sent EXCEPT ![t] = FALSE]
       ELSE /\ fh_pc' = [fh_pc EXCEPT ![t] = "request"]
            /\ fh_result' = [fh_result EXCEPT ![t] = "none"]
            /\ fh_sent' = [fh_sent EXCEPT ![t] = TRUE]
    /\ UNCHANGED <<fh_now, fh_ticks, fh_api_key, _BACKOFF_UNTIL, fh_limited>>
    /\ UNCHANGED otherThanFinnhub

\* The rest of the helper, from the answer of client.get on: a rate-limit
\* status starts the cooldown of the kind and returns the empty value, any
\* other error status and a transport error are raised, a 200 is read.
FinnhubResponse(t, status, answer) ==
    /\ fh_pc[t] = "request"
    /\ fh_pc' = [fh_pc EXCEPT ![t] = "returned"]
    /\ LET kind == fh_call[t].kind IN
       IF answer = "error"
       THEN /\ fh_result' = [fh_result EXCEPT ![t] = "raise"]
            /\ UNCHANGED <<_BACKOFF_UNTIL, fh_limited>>
       ELSE IF status \in RATE_LIMIT_STATUSES
       THEN /\ _BACKOFF_UNTIL' = _start_backoff(kind)
            /\ fh_limited' = [fh_limited EXCEPT ![kind] = {fh_now}]
            /\ fh_result' = [fh_result EXCEPT ![t] = EmptyValue(kind)]
       ELSE IF status # 200
       THEN /\ fh_result' = [fh_result EXCEPT ![t] = "raise"]
            /\ UNCHANGED <<_BACKOFF_UNTIL, fh_limited>>
       ELSE /\ fh_result' = [fh_result EXCEPT ![t] = FinnhubValue(kind, answer)]
            /\ UNCHANGED <<_BACKOFF_UNTIL, fh_limited>>
    /\ UNCHANGED <<fh_now, fh_ticks, fh_api_key, fh_call, fh_sent, fh_calls>>
    /\ UNCHANGED otherThanFinnhub

\* time.time() moves on: by a second, or to the last second of a cooldown
\* that started now.
FinnhubTick(seconds) ==
    /\ fh_ticks < MaxTicks
    /\ fh_ticks' = fh_ticks + 1
    /\ fh_now' = fh_now + seconds
    /\ UNCHANGED <<fh_api_key, _BACKOFF_UNTIL, fh_pc, fh_call, fh_sent, fh_result,
                   fh_calls, fh_limited>>
    /\ UNCHANGED otherThanFinnhub

NextFinnhub ==
    \/ \E t \in Coroutines, kind \in FinnhubKinds : FinnhubCall(t, kind)
    \/ \E t \in Coroutines, status \in FinnhubStatuses, answer \in FinnhubAnswers :
          FinnhubResponse(t, status, answer)
    \/ \E seconds \in {1, FINNHUB_BACKOFF_SECONDS - 1} : FinnhubTick(seconds)

-----------------------------------------------------------------------------
(* Specifications: one component under analysis, the others off *)

InitRouter == RouterInit /\ AllocOff /\ ExitOff /\ LedgerOff /\ ExecOff /\ SignalsOff /\ RunOff /\ TradeOff /\ SchedOff /\ CycleOff /\ CloseOff /\ FinnhubOff

SpecRouter == InitRouter /\ [][NextRouter]_vars

InitAlloc == AllocInit /\ RouterOff /\ ExitOff /\ LedgerOff /\ ExecOff /\ SignalsOff /\ RunOff /\ TradeOff /\ SchedOff /\ CycleOff /\ CloseOff /\ FinnhubOff

SpecAlloc == InitAlloc /\ [][NextAlloc]_vars

InitExit == ExitInit /\ RouterOff /\ AllocOff /\ LedgerOff /\ ExecOff /\ SignalsOff /\ RunOff /\ TradeOff /\ SchedOff /\ CycleOff /\ CloseOff /\ FinnhubOff

SpecExit == InitExit /\ [][NextExit]_vars

InitLedger == LedgerInit /\ RouterOff /\ AllocOff /\ ExitOff /\ ExecOff /\ SignalsOff /\ RunOff /\ TradeOff /\ SchedOff /\ CycleOff /\ CloseOff /\ FinnhubOff

SpecLedger == InitLedger /\ [][NextLedger]_vars

InitExec == ExecInit /\ RouterOff /\ AllocOff /\ ExitOff /\ LedgerOff /\ SignalsOff /\ RunOff /\ TradeOff /\ SchedOff /\ CycleOff /\ CloseOff /\ FinnhubOff

SpecExec == InitExec /\ [][NextExec]_vars

InitSignals ==
    SignalsInit /\ RouterOff /\ AllocOff /\ ExitOff /\ LedgerOff /\ ExecOff /\ RunOff /\ TradeOff /\ SchedOff /\ CycleOff /\ CloseOff /\ FinnhubOff

SpecSignals == InitSignals /\ [][NextSignals]_vars

InitRun ==
    /\ RunInit /\ RouterOff /\ AllocOff /\ ExitOff /\ LedgerOff /\ ExecOff
    /\ SignalsOff /\ TradeOff /\ SchedOff /\ CycleOff /\ CloseOff /\ FinnhubOff

SpecRun == InitRun /\ [][NextRun]_vars

InitTrade ==
    /\ TradeInit /\ RouterOff /\ AllocOff /\ ExitOff /\ ExecOff /\ SignalsOff
    /\ RunOff /\ SchedOff /\ CycleOff /\ CloseOff /\ FinnhubOff

SpecTrade == InitTrade /\ [][NextTrade]_vars

InitClose ==
    /\ CloseInit /\ RouterOff /\ AllocOff /\ ExitOff /\ LedgerOff /\ ExecOff
    /\ SignalsOff /\ RunOff /\ TradeOff /\ SchedOff /\ CycleOff /\ FinnhubOff

SpecClose == InitClose /\ [][NextClose]_vars

InitFinnhub ==
    /\ FinnhubInit /\ RouterOff /\ AllocOff /\ ExitOff /\ LedgerOff /\ ExecOff
    /\ SignalsOff /\ RunOff /\ TradeOff /\ SchedOff /\ CycleOff /\ CloseOff

SpecFinnhub == InitFinnhub /\ [][NextFinnhub]_vars

AllElseOff ==
    /\ RouterOff /\ AllocOff /\ ExitOff /\ LedgerOff /\ ExecOff /\ SignalsOff
    /\ RunOff /\ TradeOff

\* The two places that stop at an exhausted daily budget: allocate_positions
\* and maybe_trade.  A behaviour is a behaviour of one of them.
InitBudget == InitAlloc \/ InitTrade

NextBudget == NextAlloc \/ NextTrade

SpecBudget == InitBudget /\ [][NextBudget]_vars

\* The three places that turn a price into a quantity: allocate_positions,
\* trading.execute_trades and maybe_trade.  A behaviour is a behaviour of
\* one of them.
InitQuantity == InitAlloc \/ InitRun \/ InitTrade

NextQuantity == NextAlloc \/ NextRun \/ NextTrade

SpecQuantity == InitQuantity /\ [][NextQuantity]_vars

\* The two places that hand entry orders to the brokerage: execute_trades of
\* trader/order_executor.py and maybe_trade.  A behaviour is a behaviour of
\* one of them.
InitSubmission == InitExec \/ InitTrade

NextSubmission == NextExec \/ NextTrade

SpecSubmission == InitSubmission /\ [][NextSubmission]_vars

\* The two loops that drive cycles: the scheduler of core/scheduler.py and
\* the loop of main.py.  A behaviour is a behaviour of one of them.
InitLoops ==
    \/ SchedInit /\ CycleOff /\ AllElseOff /\ CloseOff /\ FinnhubOff
    \/ CycleInit /\ SchedOff /\ AllElseOff /\ CloseOff /\ FinnhubOff

NextLoops == NextSched \/ NextCycle

SpecLoops == InitLoops /\ [][NextLoops]_vars

\* The event loop runs every coroutine that is ready, a sleep ends, and the
\* thread of main.py keeps running.
SpecLoopsFair ==
    /\ InitLoops /\ [][NextLoops]_vars
    /\ WF_vars(SchedulerStart)
    /\ \A job \in JobNames : WF_vars(JobStep(job))
    /\ WF_vars(NextCycle)

-----------------------------------------------------------------------------
(* Claims about price routing *)

BarKinds == {"pr_bars", "md_bars"}

PriceKinds == {"pr_price", "md_price"}

\* An adapter succeeded with a non-empty result: it returned a price, or a
\* non-empty bar list.
Succeeded(out, kind) ==
    /\ out.kind = "ok"
    /\ kind \in BarKinds => out.val > 0

\* Index of the first adapter of the list that succeeds, 0 when none does.
FirstSuccess(list, env, kind) ==
    IF \E i \in 1..Len(list) : Succeeded(env[list[i]], kind)
    THEN CHOOSE i \in 1..Len(list) :
            /\ Succeeded(env[list[i]], kind)
            /\ \A j \in 1..(i - 1) : ~Succeeded(env[list[j]], kind)
    ELSE 0

LoopReturned == rt_pc \in {"done", "enrich"}

\* C1: a lookup that returns, returns the result of the first adapter (in list
\* order) that succeeds with a non-empty result, and has called exactly the
\* adapters up to that one: none after it.
C1_FirstSuccessWins ==
    LoopReturned =>
        LET i == FirstSuccess(RouterList, rt_env, rt_kind)
        IN  /\ i > 0
            /\ rt_result = rt_env[RouterList[i]].val
            /\ rt_calls = Prefix(RouterList, i)

\* C7: when every adapter of the list fails (raises, or returns nothing or an
\* empty list), the lookup returns no value and fails with the
\* all-providers-failed error, whose cause is the failure of the last adapter
\* tried.
C7_AllFailedNamesLastAdapter ==
    (/\ rt_pc \in {"done", "enrich", "failed"}
     /\ FirstSuccess(RouterList, rt_env, rt_kind) = 0)
        => /\ rt_pc = "failed"
           /\ rt_returned = NoValue
           /\ rt_calls # <<>> => rt_cause = rt_calls[Len(rt_calls)]

\* C9: the price a price lookup returns is exactly the value of the adapter that
\* succeeded first, not a combination with any other source.
C9_PriceIsFirstAdaptersValue ==
    (rt_pc = "done" /\ rt_kind \in PriceKinds) =>
        LET i == FirstSuccess(RouterList, rt_env, rt_kind)
        IN  i > 0 /\ rt_returned = rt_env[RouterList[i]].val

\* C10: an empty answer counts as a failed adapter: a bar lookup never returns
\* an empty bar list while an adapter of the list is still untried.
C10_EmptyBarsNeverReturnedEarly ==
    (rt_pc = "done" /\ rt_kind \in BarKinds /\ rt_returned = 0)
        => Len(rt_calls) = Len(RouterList)

-----------------------------------------------------------------------------
(* Claims about allocation *)

RECURSIVE SumOver(_, _)
SumOver(f, S) ==
    IF S = {} THEN 0
    ELSE LET x == CHOOSE y \in S : TRUE IN f[x] + SumOver(f, S \ {x})

\* Total notional of the allocations dict: shares x the price they were sized at.
AllocNotional == SumOver([s \in Symbols |-> al_alloc[s] * al_price[s]], Symbols)

AllocRunning == al_pc \in {"loop", "done"}

\* C2: the allocations' total notional never exceeds the starting budget
\* (DAILY_BUDGET, 0.8 x DAILY_BUDGET in crash mode); the remaining budget is the
\* starting budget minus the notional of every accepted signal so far and is
\* never negative.
C2_AllocationWithinBudget ==
    AllocRunning =>
        /\ AllocNotional <= StartBudget(al_budget, al_crash)
        /\ al_remaining = StartBudget(al_budget, al_crash) - al_spent
        /\ al_remaining >= 0

\* Several signals were accepted, the last one cut down to what was left.
C2_Witness ==
    /\ al_pc = "done"
    /\ al_accepted >= 3
    /\ al_remaining < al_base
    /\ AllocNotional > 0

-----------------------------------------------------------------------------
(* Claims about exit evaluation *)

\* The gain of the evaluated position reaches a threshold of the mode, stated
\* on the position's prices: current >= entry x (1 + tp) or
\* current <= entry x (1 - sl) for a positive entry, mirrored for a negative one.
GainReachedThreshold ==
    LET p  == ex_position.current_price
        e  == ex_position.entry_price
        tp == IF ex_crash THEN 15 ELSE 18
        sl == IF ex_crash THEN 5 ELSE 6
    IN  IF e > 0
        THEN 1000 * p >= (1000 + tp) * e \/ 1000 * p <= (1000 - sl) * e
        ELSE 1000 * p <= (1000 + tp) * e \/ 1000 * p >= (1000 - sl) * e

-----------------------------------------------------------------------------
(* Claims about the portfolio ledger *)

\* The file is missing, unreadable, not JSON, or JSON that is not an object.
CorruptKinds == {"missing", "unreadable", "garbage", "binary", "list"}

\* The empty state of DEFAULT_STATE and _empty_portfolio_state: an object
\* dated today with an empty list of positions; a counter, where the
\* implementation keeps it, is 0 and equity is the initial equity.
IsEmptyState(state, today) ==
    /\ state.kind = "object"
    /\ DateOf(state) = today
    /\ "positions" \in state.keys /\ state.positions = <<>> /\ ~state.pos_dict
    /\ "budget_used" \in state.keys => state.budget_used = 0
    /\ "daily_pnl" \in state.keys => state.daily_pnl = 0
    /\ "equity" \in state.keys => state.equity = InitialEquity

\* C5: a load from a missing, unreadable, non-JSON or non-object file does not
\* raise and returns the empty state: dated today, budget used 0, daily PnL 0,
\* no positions, equity at its default.
C5_CorruptFileLoadsEmptyState ==
    (pf_last.op = "load" /\ pf_origin.kind \in CorruptKinds)
        => /\ pf_last.outcome = "ok"
           /\ IsEmptyState(pf_mem, pf_origin_day)

\* A state object with a date and a list of positions.
ValidState(x) ==
    /\ x.kind = "object"
    /\ {"date", "positions"} \subseteq x.keys
    /\ ~x.pos_dict

\* What a load of the file as it now stands answers.
LoadAgain ==
    IF pf_impl = "trader"
    THEN load_state(Parsed(pf_file), pf_today, "ok")
    ELSE _load_portfolio_state_unlocked(Parsed(pf_file), pf_today)

\* The caller loaded a valid state dated that day and has then saved it.
SavedWhatWasLoaded ==
    /\ pf_last.op = "save"
    /\ ValidState(pf_origin)
    /\ pf_origin.date = pf_origin_day

DatedLoadReturned ==
    /\ pf_last.outcome = "ok"
    /\ \/ pf_impl = "trader" /\ pf_last.op = "load"
       \/ pf_impl = "services" /\ pf_last.op = "ensure"

\* The file held a state object whose date was not the day of the load.
StoredDateDiffered ==
    /\ pf_origin.kind = "object"
    /\ DateOf(pf_origin) # pf_origin_day

\* C11: a state returned by a load is dated today; when the stored date was
\* another day the returned state has budget used 0, no positions, daily PnL 0
\* and the stored equity.
C11_LoadedStateIsTodays ==
    DatedLoadReturned
        => /\ DateOf(pf_mem) = pf_origin_day
           /\ StoredDateDiffered
                => /\ pf_mem.positions = <<>> /\ ~pf_mem.pos_dict
                   /\ "budget_used" \in pf_mem.keys => pf_mem.budget_used = 0
                   /\ "daily_pnl" \in pf_mem.keys => pf_mem.daily_pnl = 0
                   /\ "equity" \in pf_origin.keys
                        => "equity" \in pf_mem.keys /\ pf_mem.equity = pf_origin.equity

\* C12: when a trade has been recorded, the state ends with the new trade and
\* the persisted state equals the state in memory.
C12_RecordedTradeIsPersisted ==
    pf_last = Op("record", "ok")
        => /\ pf_mem.positions # <<>>
           /\ Parsed(pf_file) = pf_mem

-----------------------------------------------------------------------------
(* Claims about the order executor *)

\* C3: no order is submitted for a symbol that is an open position at the
\* brokerage, however many times execute_trades is called.
C3_NoSubmissionForHeldSymbol ==
    xt_held_submit = {}

-----------------------------------------------------------------------------
(* Claims about the signal router *)

\* Three signals have been accepted in crash mode.
ThirdAccepted == rs_crash /\ Len(rs_signals) >= 3

\* C8: in crash mode route_signals returns at most 3 signals, and once the
\* third signal is accepted no symbol has its sentiment looked up, its bars
\* fetched or the strategy tests run.
C8_CrashCapStopsEvaluation ==
    /\ [](rs_crash => Len(rs_signals) <= 3)
    /\ [][ThirdAccepted =>
            /\ rs_sentiment' \subseteq rs_sentiment
            /\ rs_fetched' \subseteq rs_fetched
            /\ rs_tested' \subseteq rs_tested
            /\ Len(rs_signals') <= 3]_vars

\* The loop broke on the cap with predictions left that were never evaluated.
C8_Witness ==
    /\ rs_pc = "done"
    /\ ThirdAccepted
    /\ rs_preds # <<>>
    /\ Len(rs_preds) >= 3
    /\ \A i \in 2..Len(rs_preds) : rs_preds[i] \notin rs_sentiment \cup rs_fetched

\* A trade for the symbol and quantity of the order stands in the ledger, in
\* memory or in the file.
Recorded(order) ==
    \E doc \in {pf_mem, Parsed(pf_file)} :
        \E i \in DOMAIN doc.positions :
            /\ doc.positions[i].symbol = order.symbol
            /\ doc.positions[i].qty = order.qty

\* C13: an order that the brokerage accepted has been recorded in the
\* portfolio ledger, for its symbol and quantity, by the time the loop goes on
\* to the next symbol.
C13_AcceptedOrderIsRecorded ==
    xt_last_order.answer = "ok" => Recorded(xt_last_order)

-----------------------------------------------------------------------------
(* Claims about the macro-gated run *)

\* The macro state of the run has a size factor below the floor.
MacroBlocks ==
    /\ lg_pc \in {"loop", "done"}
    /\ lg_macro.size_factor < lg_macro.min_factor

\* C14: in a run whose macro state does not allow trades no order is handed
\* to the brokerage, and the summary returned reports the macro reasons.
C14_MacroBlockSubmitsNothing ==
    MacroBlocks
        => /\ lg_orders = {}
           /\ lg_pc = "done"
           /\ lg_summary.executed = <<>>
           /\ lg_summary.macro.reasons = lg_macro.reasons

C14_Witness ==
    /\ MacroBlocks
    /\ lg_universe # <<>>
    /\ lg_summary.macro.reasons = <<"spy_trend_negative", "vix_elevated">>
    /\ lg_summary.macro.size_factor = 1500

-----------------------------------------------------------------------------
(* Claims about maybe_trade *)

\* budget_used of the ledger file, 0 when the file holds no state object.
BudgetUsed ==
    IF Parsed(pf_file).kind = "object" THEN Parsed(pf_file).budget_used ELSE 0

\* C15: whatever the interleaving of concurrent calls of maybe_trade, the
\* budget_used of the day's ledger never exceeds DAILY_BUDGET.
C15_BudgetUsedWithinDailyBudget ==
    BudgetUsed <= DAILY_BUDGET

-----------------------------------------------------------------------------
(* Claims about the scheduler and the trading cycle *)

\* C16: at most one invocation of a scheduled job is in progress at any time
\* (invocation N+1 starts only when invocation N has ended), and likewise at
\* most one iteration of the loop of microcap_cycle.
C16_OneInvocationAtATime ==
    /\ \A job \in JobNames : sc_running[job] <= 1
    /\ cy_running <= 1

\* Both registered jobs have an invocation in progress at once, each of them
\* a second or later one of its job.
C16_Witness ==
    /\ \A job \in JobNames : sc_running[job] = 1 /\ sc_last[job] # "none"

\* C17: a cycle that raised is caught and logged and a next cycle is started,
\* for each job of the scheduler and for the loop of microcap_cycle.
C17_RaisedCycleIsFollowedByNext ==
    /\ \A job \in JobNames :
          (sc_last[job] = "raised")
              ~> (sc_pc[job] = "awaiting" /\ sc_last[job] = "logged")
    /\ (cy_last = "raised") ~> (cy_pc = "market" /\ cy_last = "logged")

\* An invocation of a job runs after one that raised and was logged.
C17_Witness ==
    \E job \in JobNames : sc_pc[job] = "awaiting" /\ sc_last[job] = "logged"

\* C19: the positions open at the brokerage plus the entries handed to
\* execute_trades never exceed the maximum (3 in crash mode, MAX_POSITIONS
\* otherwise) when an entry is handed over.
C19_OpenPlusPassedWithinMaxPositions ==
    (cy_pc = "execute" /\ cy_passed > 0)
        => cy_held + cy_passed <= (IF cy_crash THEN 3 ELSE MAX_POSITIONS)

-----------------------------------------------------------------------------
(* Claims about the exhausted daily budget *)

\* The ledger file holds today's state with nothing left of DAILY_BUDGET.
ExhaustedToday ==
    /\ Parsed(pf_file).kind = "object"
    /\ DateOf(Parsed(pf_file)) = pf_today
    /\ Parsed(pf_file).budget_used >= DAILY_BUDGET

\* One caller evaluates the symbols, one after the other.
OneCaller == Cardinality({t \in Threads : mt_pc[t] # "off"}) = 1

\* C18: once nothing is left of the daily budget no further order is
\* submitted.  A call of maybe_trade that finds the budget exhausted returns
\* False with the reason logged and hands no order to the brokerage, and
\* with one caller no order at all follows; allocate_positions accepts no
\* signal while budget_remaining <= 0 and leaves its loop once an accepted
\* signal has brought budget_remaining to 0.
C18_NoOrderOnceBudgetExhausted ==
    [][ /\ (ExhaustedToday /\ mt_calls' # mt_calls)
            => /\ mt_orders' = mt_orders
               /\ mt_pc' = mt_pc
               /\ \E t \in Threads :
                     /\ mt_pc[t] = "idle"
                     /\ mt_result'[t] = "False"
               /\ TRADE_LOG' # TRADE_LOG
               /\ TRADE_LOG'[Len(TRADE_LOG')].reason = "Daily budget exhausted"
        /\ (ExhaustedToday /\ OneCaller) => mt_orders' = mt_orders
        /\ (al_pc = "loop" /\ al_remaining <= 0) => al_accepted' = al_accepted
        /\ (al_accepted' > al_accepted /\ al_remaining' <= 0) => al_pc' = "done"
      ]_vars

\* A call of maybe_trade has just returned False at the exhausted budget,
\* after an order of the same caller used the budget up.
C18_Witness ==
    /\ ExhaustedToday
    /\ OneCaller
    /\ mt_orders # {}
    /\ \E t \in Threads : mt_pc[t] = "idle" /\ mt_result[t] = "False"
    /\ TRADE_LOG # <<>>
    /\ TRADE_LOG[Len(TRADE_LOG)].reason = "Daily budget exhausted"

-----------------------------------------------------------------------------
(* Claims about quantities *)

\* Every order handed to a brokerage client, and every entry of
\* allocations, has a quantity of one share or more.
QuantitiesPositive ==
    /\ \A order \in mt_orders : order.qty > 0
    /\ \A order \in lg_orders : order.qty > 0
    /\ \A symbol \in Symbols : al_alloc[symbol] >= 0

\* C20: no order goes to the brokerage with a quantity <= 0, and a price
\* that buys no share is a skip, never an error: with a ledger file that
\* loads, no call of maybe_trade raises.
C20_NonPositiveQuantityIsSkipped ==
    /\ QuantitiesPositive
    /\ \A t \in Threads : mt_result[t] # "raise"

-----------------------------------------------------------------------------
(* Claims about the exit check and close_position *)

\* C21: every close request handed to the brokerage is for a symbol with an
\* open position, as close_position fetched it, whose quantity is greater
\* than the quantity held for orders.
C21_CloseOnlyWithFreeQuantity ==
    \A request \in cp_requests :
        /\ request.seen.kind = "position"
        /\ request.seen.qty.kind = "ok"
        /\ held_for_orders(request.seen).kind = "ok"
        /\ request.seen.qty.val > held_for_orders(request.seen).val

\* A close request went out for two shares of which one is held for orders,
\* and a call for a position wholly held for orders ended without one.
C21_Witness ==
    /\ \E request \in cp_requests :
          request.seen.qty = Ok(2) /\ request.seen.held = Ok(1)
    /\ cp_pc = "done"
    /\ cp_outcome = "no exit"
    /\ cp_seen.held = Ok(2)

\* C22: a position held for longer than the cap of the mode (60 minutes in
\* crash mode, 90 otherwise) is told to exit by the exit check and handed to
\* close_position.
C22_OverdueHoldingIsClosed ==
    (/\ cp_checked # NotChecked
     /\ cp_checked.minutes > (IF cp_checked.crash THEN 60 ELSE 90))
        => cp_checked.result = "True" /\ cp_checked.passed

\* C23: should_exit answers false only after the bar series of the symbol
\* was fetched and the exit filter said hold; without fresh bars the answer
\* is true.
C23_HoldOnlyOnFreshBars ==
    ex_pc = "done"
        => \/ ex_result = "True"
           \/ ex_result = "False" /\ ex_fetched /\ ex_bars = "hold"

-----------------------------------------------------------------------------
(* Claims about the bracket and the execution phase *)

\* C24: the take-profit of a submitted bracket order is the entry price plus
\* ATR x the take-profit multiple of the winning signal, and its stop-loss
\* the entry price minus ATR x the stop-loss multiple (entry 100, ATR 2,
\* multiples 3 and 1.5: 106.00 and 97.00).
C24_BracketFromAtrMultiples ==
    xt_bracket # NoBracket
        => /\ xt_bracket.take_profit
                = 100 * xt_bracket.price + 10 * xt_bracket.atr * xt_bracket.multiples.tp
           /\ xt_bracket.stop_loss
                = 100 * xt_bracket.price - 10 * xt_bracket.atr * xt_bracket.multiples.sl

\* C28: when the open-positions lookup at the start of execute_trades
\* fails, that call submits no order.
C28_NoSubmissionWithoutPositions ==
    [][xt_fetch = "raise" => xt_submitted' = xt_submitted]_vars

-----------------------------------------------------------------------------
(* Claims about the sizing of maybe_trade *)

\* The confidence brought into [MIN_CONFIDENCE, MAX_CONFIDENCE], the default
\* standing in for a missing or unparsable one.
Clamped(confidence) ==
    LET value == IF confidence.kind = "ok" THEN confidence.val ELSE DEFAULT_CONFIDENCE
    IN  IF value < MIN_CONFIDENCE THEN MIN_CONFIDENCE
        ELSE IF value > MAX_CONFIDENCE THEN MAX_CONFIDENCE
        ELSE value

\* qty is the floor of amount / price, the amount being the least of the
\* confidence-scaled daily budget, the per-trade cap and the remaining
\* daily budget.
IsSizedQty(qty, call) ==
    \E amount \in {(Clamped(call.confidence) * DAILY_BUDGET) \div 1000,
                    (TRADING_BUDGET * ALLOCATION_RATIO) \div 100,
                    call.remaining_daily} :
        /\ 1000 * amount <= Clamped(call.confidence) * DAILY_BUDGET
        /\ 100 * amount <= TRADING_BUDGET * ALLOCATION_RATIO
        /\ amount <= call.remaining_daily
        /\ qty * call.entry_price <= amount
        /\ amount < (qty + 1) * call.entry_price

\* C25: the quantity of every order maybe_trade submits is
\* floor(min(clamp(confidence) x budget, per-trade cap, remaining daily
\* budget) / entry price), the default confidence standing in for a missing
\* or unparsable one.
C25_SubmittedQuantityIsSized ==
    [][\A order \in mt_orders' \ mt_orders :
          \E t \in Threads :
              /\ mt_pc[t] = "submit"
              /\ mt_pc'[t] # "submit"
              /\ order.symbol = mt_call[t].symbol
              /\ IsSizedQty(order.qty, mt_call[t])
      ]_vars

\* Orders went out sized by a confidence below the minimum and by an
\* unparsable one.
C25_Witness ==
    /\ \E order \in mt_orders : order.qty = 4
    /\ \E t \in Threads :
          /\ mt_pc[t] = "increment"
          /\ mt_call[t].confidence = Raise
          /\ mt_call[t].qty = 10
          /\ Order(mt_call[t].symbol, 10, "ok") \in mt_orders

-----------------------------------------------------------------------------
(* Claims about the macro state *)

\* The index check fired: two bars or more, the last close below the one
\* before it.
IndexTrendNegative ==
    /\ lg_market.bars.kind = "ok"
    /\ Len(lg_market.bars.val) >= 2
    /\ lg_market.bars.val[Len(lg_market.bars.val)]
          < lg_market.bars.val[Len(lg_market.bars.val) - 1]

\* The volatility check fired: a price above the threshold.
VolatilityAboveThreshold ==
    /\ lg_market.vix_price.kind = "ok"
    /\ lg_market.vix_price.val > macro_vix_threshold

\* C26: the size factor of the macro state is 1.0 times the reduce factor of
\* exactly the checks that fired, and reasons holds one reason per applied
\* reduction, in that order; a check whose data could not be fetched reduces
\* nothing and adds no reason.
C26_SizeFactorIsProductOfFiredChecks ==
    lg_pc \in {"loop", "done"}
        => /\ 100 * 100 * lg_macro.size_factor =
                One * (IF IndexTrendNegative THEN lg_market.spy_factor ELSE 100)
                    * (IF VolatilityAboveThreshold THEN lg_market.vix_factor ELSE 100)
           /\ lg_macro.reasons =
                (IF IndexTrendNegative THEN <<"spy_trend_negative">> ELSE <<>>)
                    \o (IF VolatilityAboveThreshold THEN <<"vix_elevated">> ELSE <<>>)

\* The index fell while the volatility price could not be fetched: one
\* reduction, one reason.
C26_Witness ==
    /\ lg_pc = "loop"
    /\ IndexTrendNegative
    /\ lg_market.vix_price = Raise
    /\ lg_market.spy_factor = 30
    /\ lg_macro.size_factor = 3000
    /\ lg_macro.reasons = <<"spy_trend_negative">>

-----------------------------------------------------------------------------
(* Claims about the crash flag *)

\* The providers hold two index bars or more, the close before the last is
\* not zero, and the last close is at least 0.2% below it.
IndexDropped ==
    /\ cy_index.kind = "ok"
    /\ Len(cy_index.val) >= 2
    /\ cy_index.val[Len(cy_index.val) - 1] # 0
    /\ 1000 * (cy_index.val[Len(cy_index.val)] - cy_index.val[Len(cy_index.val) - 1])
          <= (0 - 2) * cy_index.val[Len(cy_index.val) - 1]

\* C27: the crash flag of a cycle is true exactly when the price router
\* yields two index bars or more, the previous close is not zero and the last
\* close is at least 0.2% below it; that flag is the one the rest of the
\* cycle uses.
C27_CrashExactlyOnIndexDrop ==
    cy_pc \in {"universe", "signals", "allocate", "positions", "filter", "execute",
               "exits"}
        => (cy_crash <=> IndexDropped)

-----------------------------------------------------------------------------
(* Claims about order submission *)

\* C29: within one cycle a submission is attempted at most once per symbol,
\* and a failed submission for one symbol does not stop the remaining symbols
\* of the cycle from being evaluated and submitted.  In execute_trades the
\* symbol submitted leaves the queue of the call and the loop goes on after a
\* failure; a call of maybe_trade submits once, and after a failed
\* submission it does not return False, the value that tells its caller to
\* stop evaluating further symbols.
C29_OneAttemptAndFailureDoesNotStop ==
    [][ /\ \A symbol \in ExecSymbols :
              xt_submitted'[symbol] # xt_submitted[symbol]
                  => /\ xt_submitted'[symbol] = xt_submitted[symbol] + 1
                     /\ xt_pc = "loop"
                     /\ symbol = Head(xt_queue)
                     /\ \A i \in 1..Len(xt_queue') : xt_queue'[i] # symbol
                     /\ xt_pc' = "loop"
                     /\ xt_queue' = Tail(xt_queue)
        /\ \A t \in Threads :
              /\ mt_pc'[t] = "submit" /\ mt_pc[t] # "submit" => mt_pc[t] = "gate"
              /\ (/\ mt_pc[t] = "failed"
                  /\ Order(mt_call[t].symbol, mt_call[t].qty, "raise") \in mt_orders
                  /\ mt_pc'[t] = "idle")
                    => mt_result'[t] # "False"
      ]_vars

-----------------------------------------------------------------------------
(* Claims about outcome records *)

\* How many records of seq are about symbol.
CountIn(seq, symbol) == Cardinality({i \in 1..Len(seq) : seq[i].symbol = symbol})

SkipReasons == {"price_unavailable", "quantity_below_one", "order_failed"}

-----------------------------------------------------------------------------
(* Claims about STATE_LOCK *)

\* C31: every call of maybe_trade returns a boolean and leaves STATE_LOCK
\* released, on every guard path including the max-utilization rejection; no
\* call blocks forever waiting for STATE_LOCK.  A thread that waits for the
\* lock it holds itself waits forever, so no thread may wait for STATE_LOCK
\* while it is the holder.
C31_NoCallWaitsForItsOwnLock ==
    \A t \in Threads : mt_pc[t] = "stuck" => STATE_LOCK # t

-----------------------------------------------------------------------------
(* Claims about the ledger under concurrent recordings *)

\* sum of qty x price over a list of positions
RECURSIVE CostOf(_)
CostOf(positions) ==
    IF positions = <<>> THEN 0
    ELSE Head(positions).qty * Head(positions).price + CostOf(Tail(positions))

\* The ledger file is an object dated today.
LedgerIsTodays ==
    /\ Parsed(pf_file).kind = "object"
    /\ DateOf(Parsed(pf_file)) = pf_today

\* The trade of the call of thread t, as _record_portfolio_trade writes it.
TradeOf(t) ==
    [symbol |-> mt_call[t].symbol, qty |-> mt_call[t].qty,
     price |-> mt_call[t].entry_price]

\* C32: under any interleaving of concurrent trade recordings today's ledger
\* is consistent: budget_used is the sum of qty x price over the recorded
\* positions, and a trade whose order was accepted and whose recording has
\* returned is in the positions of today's ledger; no update is lost.
C32_LedgerConsistentUnderInterleaving ==
    /\ LedgerIsTodays
          => Parsed(pf_file).budget_used = CostOf(Parsed(pf_file).positions)
    /\ \A t \in Threads :
          mt_pc[t] = "placed"
              => /\ LedgerIsTodays
                 /\ \E i \in 1..Len(Parsed(pf_file).positions) :
                       Parsed(pf_file).positions[i] = TradeOf(t)

-----------------------------------------------------------------------------
(* Claims about ALLOCATED_CAPITAL *)

\* C33: ALLOCATED_CAPITAL never exceeds MAX_UTILIZATION x TRADING_BUDGET,
\* whatever the interleaving of calls of maybe_trade, and no order is
\* submitted whose cost would push it above that limit.
C33_AllocatedWithinMaxUtilization ==
    /\ 100 * ALLOCATED_CAPITAL <= MAX_UTILIZATION * TRADING_BUDGET
    /\ \A t \in Threads :
          mt_pc[t] = "increment"
              => 100 * (ALLOCATED_CAPITAL + mt_call[t].qty * mt_call[t].entry_price)
                     <= MAX_UTILIZATION * TRADING_BUDGET

-----------------------------------------------------------------------------
(* Claims about the exit check of the cycle *)

\* C34: in every cycle that runs while the market is open the exit
\* conditions of the open positions are evaluated, whether or not the
\* universe was empty and whether or not signals or allocations were
\* produced.  An iteration comes to its finally clause only from the market
\* test (market closed), from the exit checks, or from the handler of a
\* failure.
C34_OpenMarketCycleChecksExits ==
    [][(cy_pc' = "finally" /\ cy_pc # "finally")
          => cy_pc \in {"market", "exits", "except"}]_vars

-----------------------------------------------------------------------------
(* Claims about the per-position cap *)

\* C35: every bracket order submitted in a cycle has a notional (shares x
\* the price the order was built at) within the per-position cap of the
\* cycle's mode, 0.8 x DAILY_BUDGET / 3 in crash mode and DAILY_BUDGET / 3
\* otherwise, whatever the price did between risk check and submission.
C35_SubmittedNotionalWithinCap ==
    \A notional \in cy_orders :
        IF cy_crash THEN 3 * 10 * notional <= 8 * RISK_DAILY_BUDGET
        ELSE 3 * notional <= RISK_DAILY_BUDGET

-----------------------------------------------------------------------------
(* Claims about the buying power *)

\* C36: within one call of execute_trades the notional of the orders
\* submitted never adds up to more than the buying power obtained at the
\* start of the call, 0 when it could not be fetched.  buying_power holds
\* what the orders accepted so far have left of it, so every order handed
\* to submit_order has a notional within buying_power.
C36_SubmittedWithinBuyingPower ==
    [][\A symbol \in ExecSymbols :
          xt_submitted'[symbol] # xt_submitted[symbol]
              => xt_shares[symbol] * xt_bracket'.price <= xt_buying_power]_vars

-----------------------------------------------------------------------------
(* Claims about the quantities of the legacy pipeline *)

\* C37: for every price > 0 the quantity of calculate_quantity has a
\* notional (qty x price, in cents) within the per-position cap
\* daily_budget / max(max_positions, 1); the risk-per-share variant only
\* reduces the flat-allocation quantity.  The quantity executed is that
\* quantity, scaled down by the macro size factor.
C37_QuantityWithinPositionCap ==
    \A i \in 1..Len(lg_executed) :
        lg_executed[i].qty * lg_executed[i].entry * Max(max_positions, 1)
            <= daily_budget * 100

\* sum of qty x entry over the trade records of a run, in cents
RECURSIVE NotionalOf(_)
NotionalOf(executed) ==
    IF executed = <<>> THEN 0
    ELSE Head(executed).qty * Head(executed).entry + NotionalOf(Tail(executed))

\* C38: in one run of the legacy execute_trades the notional of all orders
\* submitted adds up to no more than daily_budget.
C38_RunNotionalWithinDailyBudget ==
    NotionalOf(lg_executed) <= daily_budget * 100

-----------------------------------------------------------------------------
(* Claims about the Finnhub cooldown *)

\* A rate-limit status arrived for the kind less than
\* FINNHUB_BACKOFF_SECONDS ago.
InCooldown(kind) ==
    \E second \in fh_limited[kind] :
        fh_now < second + FINNHUB_BACKOFF_SECONDS

\* The coroutine begins a call in this step.
CallBegins(t) == fh_call'[t] # fh_call[t]

\* C40: after a rate-limit response (HTTP 403 or 429) on a kind, every call
\* of that kind begun before the cooldown has elapsed returns the empty
\* value of the kind without issuing an HTTP request; a call of a kind that
\* has no cooldown running, another kind or the same kind once the cooldown
\* has elapsed, issues its request (given an API key).
C40_CooldownSkipsCallsOfThatKindOnly ==
    [][\A t \in Coroutines :
          CallBegins(t) =>
              IF InCooldown(fh_call'[t].kind)
              THEN /\ fh_pc'[t] = "returned"
                   /\ fh_result'[t] = EmptyValue(fh_call'[t].kind)
                   /\ ~fh_sent'[t]
              ELSE fh_api_key => fh_pc'[t] = "request" /\ fh_sent'[t]]_vars

\* A call was skipped inside the cooldown of its kind, and a later call of
\* another kind is in flight.
C40_Witness ==
    \E t, u \in Coroutines :
        /\ fh_pc[t] = "returned" /\ ~fh_sent[t]
        /\ fh_result[t] = EmptyValue(fh_call[t].kind)
        /\ InCooldown(fh_call[t].kind)
        /\ fh_pc[u] = "request"
        /\ fh_call[u].kind # fh_call[t].kind
        /\ fh_call[u].no > fh_call[t].no

-----------------------------------------------------------------------------
(* Claims about a failed submission in maybe_trade *)

\* Today's ledger as _ensure_today_portfolio_state_unlocked reads the file:
\* budget_used and positions of an object dated today, else the empty state.
TodaysLedger ==
    IF LedgerIsTodays
    THEN [budget_used |-> Parsed(pf_file).budget_used,
          positions |-> Parsed(pf_file).positions]
    ELSE [budget_used |-> 0, positions |-> <<>>]

BudgetState == <<ALLOCATED_CAPITAL, TodaysLedger>>

\* The thread takes its _increment_allocation or _record_portfolio_trade
\* step, after a submit_order that was accepted.
ChargesAcceptedOrder(t) ==
    /\ mt_answer[t] = "ok"
    /\ mt_pc[t] \in {"increment", "record"}
    /\ mt_pc'[t] # mt_pc[t]

\* C39: a failed order submission leaves the budget state unchanged.
\* ALLOCATED_CAPITAL, budget_used and positions of today's ledger change only
\* in the steps that charge an accepted order, so no step of a call whose
\* submit_order raises changes them; that call returns False and adds one
\* "skipped" entry to the trade log.
C39_FailedSubmissionLeavesBudgetState ==
    [][/\ BudgetState' # BudgetState => \E t \in Threads : ChargesAcceptedOrder(t)
       /\ \A t \in Threads :
            (mt_answer[t] = "raise" /\ mt_pc[t] # "idle" /\ mt_pc'[t] = "idle")
                => /\ mt_result'[t] = "False"
                   /\ Len(TRADE_LOG') = Len(TRADE_LOG) + 1
                   /\ TRADE_LOG'[Len(TRADE_LOG')].status = "skipped"
                   /\ TRADE_LOG'[Len(TRADE_LOG')].symbol = mt_call[t].symbol]_vars

\* A call whose submit_order raised has returned False next to a ledger of
\* today that holds a trade, with capital allocated.
C39_Witness ==
    \E t \in Threads :
        /\ mt_answer[t] = "raise"
        /\ mt_pc[t] = "idle"
        /\ mt_result[t] = "False"
        /\ ALLOCATED_CAPITAL > 0
        /\ LedgerIsTodays
        /\ Parsed(pf_file).positions # <<>>

====
